---- MODULE Spec2Model ----
(***************************************************************************)
(* Authentication and authorization core of the gym-management backend:    *)
(* the credential store, the token codec, AuthService, UserService, the    *)
(* HTTP controllers of the auth routes with the centralized error handler, *)
(* and the request-time middleware (authenticate, authorize,                *)
(* validateGymAccess) with the route tables.                                *)
(*                                                                         *)
(* Every await on the store is one atomic step of a request; the           *)
(* synchronous code between two awaits belongs to the step that follows    *)
(* the first of them.  An operation with a single store access is one      *)
(* step.                                                                    *)
(***************************************************************************)
EXTENDS Integers, Sequences, FiniteSets, TLC

(***************************************************************************)
(* Bounds of the model.                                                    *)
(***************************************************************************)
\* Number of credential records ever created (ids are never reused).
MaxUsers == 2
\* Last instant of the clock.
MaxTime == 2
\* Number of rows the check_ins table can hold.
MaxCheckIns == 2

\* Request handlers that may be in flight at once.
Procs == {1, 2}

(***************************************************************************)
(* Value universes.                                                        *)
(***************************************************************************)
\* JavaScript undefined / SQL NULL / an absent optional field.
Undefined == "undefined"
\* The empty string, which the request schemas accept for cpf
\* (z.literal('')) and which JavaScript treats as falsy.
Empty == ""

Gyms == {"g1", "g2"}
Emails == {"e1", "e2"}
Cpfs == {"c1"}
Passwords == {"p1", "p2"}
Roles == {"ADMIN", "INSTRUCTOR", "MEMBER"}
Ids == 1..MaxUsers

\* JavaScript truthiness of an optional string.
Truthy(v) == v # Undefined /\ v # Empty

\* a || b on optional strings.
Or(a, b) == IF Truthy(a) THEN a ELSE b

(***************************************************************************)
(* Password hasher (bcrypt).  A digest records the plaintext it was made   *)
(* from and the work factor; comparison recomputes under the digest.       *)
(***************************************************************************)
SALT_ROUNDS == 10

hashPassword(password) ==
  [alg |-> "bcrypt", rounds |-> SALT_ROUNDS, of |-> password]

comparePassword(password, hash) ==
  hash.alg = "bcrypt" /\ hash.of = password

(***************************************************************************)
(* Token codec.  A token is the signed payload: issuer, audience, the      *)
(* claims and the expiry, with its signature: the secret it was made with  *)
(* and the content it was made over.  A claim the payload does not carry   *)
(* is Undefined.  The issue time is exp minus the lifetime of the token's  *)
(* class and is not stored.                                                *)
(***************************************************************************)
\* Lifetimes in clock units ('15m' and '7d' by default): access < refresh.
AccessExpiresIn == 1
RefreshExpiresIn == 2

ISSUER == "gym-saas-api"
AUDIENCE == "gym-saas-client"

\* An absent cookie, header or body field.
NoToken == [absent |-> TRUE]

\* The empty string where a token is expected: present, and falsy like an
\* absent one.
EmptyToken == [empty |-> TRUE]

\* A string that is no JWT, or a JWT signed with a key the server never had.
GarbageToken ==
  [secret |-> "forged", signed |-> <<>>, iss |-> ISSUER, aud |-> AUDIENCE,
   userId |-> 0, gymId |-> Undefined, role |-> Undefined, exp |-> 0]

\* The content of a token its signature has to cover.
Content(token) ==
  <<token.iss, token.aud, token.userId, token.gymId, token.role, token.exp>>

\* jwt.sign(payload, secret, {expiresIn, issuer, audience}) at instant t.
JwtSign(payload, secret, expiresIn, t) ==
  [secret |-> secret,
   signed |-> <<ISSUER, AUDIENCE, payload.userId, payload.gymId, payload.role,
                t + expiresIn>>,
   iss |-> ISSUER, aud |-> AUDIENCE,
   userId |-> payload.userId, gymId |-> payload.gymId, role |-> payload.role,
   exp |-> t + expiresIn]

\* jwt.verify that does not compare the signature with the content.
JwtVerifyKeyOnly(token, secret, t) ==
  IF token.secret # secret THEN "JsonWebTokenError"
  ELSE IF t >= token.exp THEN "TokenExpiredError"
  ELSE IF token.aud # AUDIENCE \/ token.iss # ISSUER THEN "JsonWebTokenError"
  ELSE "ok"

\* jwt.verify accepting a token at the instant of its expiry.
JwtVerifyLateExpiry(token, secret, t) ==
  IF token.secret # secret \/ token.signed # Content(token)
  THEN "JsonWebTokenError"
  ELSE IF t > token.exp THEN "TokenExpiredError"
  ELSE IF token.aud # AUDIENCE \/ token.iss # ISSUER THEN "JsonWebTokenError"
  ELSE "ok"

\* jwt.verify(token, secret, {issuer, audience}) at instant t: the signature
\* first, then the expiry, then audience and issuer.
JwtVerify(token, secret, t) ==
  IF token.secret # secret \/ token.signed # Content(token)
  THEN "JsonWebTokenError"
  ELSE IF t >= token.exp THEN "TokenExpiredError"
  ELSE IF token.aud # AUDIENCE \/ token.iss # ISSUER THEN "JsonWebTokenError"
  ELSE "ok"

generateAccessToken(cfg, payload, t) ==
  JwtSign(payload, cfg.accessSecret, AccessExpiresIn, t)

generateRefreshToken(cfg, payload, t) ==
  JwtSign([userId |-> payload.userId, gymId |-> Undefined, role |-> Undefined],
          cfg.refreshSecret, RefreshExpiresIn, t)

\* The payload jwt.verify returns for a token it accepts.
Decoded(token) ==
  [userId |-> token.userId, gymId |-> token.gymId, role |-> token.role,
   exp |-> token.exp, iss |-> token.iss, aud |-> token.aud]

\* "ok", or the message of the Error thrown.
verifyAccessToken(cfg, token, t) ==
  LET r == JwtVerify(token, cfg.accessSecret, t)
  IN  IF r = "TokenExpiredError" THEN "Access token expired"
      ELSE IF r = "JsonWebTokenError" THEN "Invalid access token"
      ELSE "ok"

verifyRefreshToken(cfg, token, t) ==
  LET r == JwtVerify(token, cfg.refreshSecret, t)
  IN  IF r = "TokenExpiredError" THEN "Refresh token expired"
      ELSE IF r = "JsonWebTokenError" THEN "Invalid refresh token"
      ELSE "ok"

\* The signing secrets a started process can hold: both non-empty.
Secrets == {"s1", "s2"}
StartedConfigs ==
  {[accessSecret |-> "s1", refreshSecret |-> "s2"],
   [accessSecret |-> "s1", refreshSecret |-> "s1"]}

(***************************************************************************)
(* Errors and the centralized error handler.                               *)
(***************************************************************************)
AppError(message, statusCode) ==
  [kind |-> "AppError", statusCode |-> statusCode, message |-> message,
   code |-> Undefined, target |-> Undefined]

\* Prisma.PrismaClientKnownRequestError with the given code; target is
\* error.meta.target, the unique constraint a P2002 names.
PrismaError(code, target) ==
  [kind |-> "PrismaClientKnownRequestError", statusCode |-> 0,
   message |-> "prisma", code |-> code, target |-> target]

\* Any other Error (a ZodError, a TypeError, a lost connection).
OtherError(name) ==
  [kind |-> name, statusCode |-> 0, message |-> name, code |-> Undefined,
   target |-> Undefined]

\* handlePrismaError without its P2002 case.
handlePrismaErrorNoP2002(error) ==
  CASE error.code = "P2025" ->
         [status |-> 404, message |-> "Record not found", detail |-> Undefined]
    [] OTHER ->
         [status |-> 400, message |-> "Database error", detail |-> error.code]

handlePrismaError(error) ==
  CASE error.code = "P2002" ->
         [status |-> 409, message |-> "A record with this value already exists",
          detail |-> error.target]
    [] error.code = "P2025" ->
         [status |-> 404, message |-> "Record not found", detail |-> Undefined]
    [] OTHER ->
         [status |-> 400, message |-> "Database error", detail |-> error.code]

\* The HTTP status, the message and the value of the one further field a
\* body may carry (field or code); the body's status field is always "error".
errorHandler(error) ==
  IF error.kind = "AppError"
  THEN [status |-> error.statusCode, message |-> error.message,
        detail |-> Undefined]
  ELSE IF error.kind = "PrismaClientKnownRequestError"
  THEN handlePrismaError(error)
  ELSE [status |-> 500, message |-> "Internal server error",
        detail |-> Undefined]

(***************************************************************************)
(* State.                                                                  *)
(***************************************************************************)
VARIABLES
  users,       \* the credential store: id -> record, for the records present
  nextId,      \* the id the next created record gets
  now,         \* the clock
  JWT_CONFIG,  \* the signing secrets loaded at process start
  jar,         \* the cookies of the client: accessToken, refreshToken
  pc,          \* per request handler: the await it is suspended at
  call,        \* per request handler: arguments and locals of the call
  res,         \* the HTTP response the latest step sent, if it sent one
  gate,        \* the last request taken through a route's middleware chain
  checkIns     \* the check_ins table: a sequence of rows, the id its index

vars == <<users, nextId, now, JWT_CONFIG, jar, pc, call, res, gate, checkIns>>

(***************************************************************************)
(* Credential store (PrismaUserRepository over the users table).           *)
(***************************************************************************)
\* null, as findUnique returns it.
Null == [null |-> TRUE]

findById(us, id) == IF id \in DOMAIN us THEN us[id] ELSE Null

findByEmailAndGymId(us, email, gymId) ==
  IF \E i \in DOMAIN us : us[i].email = email /\ us[i].gymId = gymId
  THEN us[CHOOSE i \in DOMAIN us : us[i].email = email /\ us[i].gymId = gymId]
  ELSE Null

\* existsByEmailAndGymId with the tenant left out of the where clause.
existsByEmailAnyGym(us, email, gymId) ==
  Cardinality({i \in DOMAIN us : us[i].email = email}) > 0

existsByEmailAndGymId(us, email, gymId) ==
  Cardinality({i \in DOMAIN us :
                 us[i].email = email /\ us[i].gymId = gymId}) > 0

existsByCpf(us, cpf) ==
  Cardinality({i \in DOMAIN us : us[i].cpf = cpf}) > 0

\* A users table with no unique index.
NoUniqueIndex(us, id, row) == Undefined

\* The unique indexes of the users table, as the queries by
\* where: {email_gymId} and where: {cpf} require them: the constraint that a
\* row with these values, stored under id, would break (Undefined if none).
\* NULL cpfs never collide.
UniqueViolation(us, id, row) ==
  IF \E i \in DOMAIN us \ {id} :
       us[i].email = row.email /\ us[i].gymId = row.gymId
  THEN "email_gymId"
  ELSE IF row.cpf # Undefined /\ \E i \in DOMAIN us \ {id} : us[i].cpf = row.cpf
  THEN "cpf"
  ELSE Undefined

\* No error thrown.
NoError == [kind |-> "none"]

\* prisma.user.create: the error thrown, if any.
createError(us, id, row) ==
  IF UniqueViolation(us, id, row) # Undefined
  THEN PrismaError("P2002", UniqueViolation(us, id, row))
  ELSE NoError

\* The row create stores for data under a fresh id; new rows are active.
createRow(id, data) ==
  [id |-> id, gymId |-> data.gymId, name |-> data.name, email |-> data.email,
   passwordHash |-> data.passwordHash, role |-> data.role, cpf |-> data.cpf,
   isActive |-> TRUE]

create(us, id, data) == (id :> createRow(id, data)) @@ us

\* The row update leaves: a field data does not define keeps its value.
\* An optional boolean of the data is "true", "false" or Undefined.
updateRow(row, data) ==
  [row EXCEPT
     !.gymId = IF data.gymId # Undefined THEN data.gymId ELSE @,
     !.name = IF data.name # Undefined THEN data.name ELSE @,
     !.email = IF data.email # Undefined THEN data.email ELSE @,
     !.role = IF data.role # Undefined THEN data.role ELSE @,
     !.cpf = IF data.cpf # Undefined THEN data.cpf ELSE @,
     !.isActive = IF data.isActive # Undefined THEN data.isActive = "true"
                  ELSE @]

\* prisma.user.update: the error thrown, if any.
updateError(us, id, data) ==
  IF id \notin DOMAIN us THEN PrismaError("P2025", Undefined)
  ELSE IF UniqueViolation(us, id, updateRow(us[id], data)) # Undefined
  THEN PrismaError("P2002", UniqueViolation(us, id, updateRow(us[id], data)))
  ELSE NoError

update(us, id, data) == [us EXCEPT ![id] = updateRow(us[id], data)]

NoChange ==
  [gymId |-> Undefined, name |-> Undefined, email |-> Undefined, role |-> Undefined,
   cpf |-> Undefined, isActive |-> Undefined]

softDelete(us, id) == update(us, id, [NoChange EXCEPT !.isActive = "false"])

\* reactivate that also resets the role.
reactivateAsMember(us, id) ==
  update(us, id, [NoChange EXCEPT !.isActive = "true", !.role = "MEMBER"])

reactivate(us, id) == update(us, id, [NoChange EXCEPT !.isActive = "true"])

\* prisma.user.delete: the error thrown, if any.
deleteError(us, id) ==
  IF id \notin DOMAIN us THEN PrismaError("P2025", Undefined) ELSE NoError

\* delete that only clears the active flag.
deleteKeepsRow(us, id) == update(us, id, [NoChange EXCEPT !.isActive = "false"])

delete(us, id) == [i \in DOMAIN us \ {id} |-> us[i]]

(***************************************************************************)
(* Responses.                                                              *)
(***************************************************************************)
\* op: the operation answered and req: what the request carried; status,
\* message, detail: the HTTP status and the body's message and extra field;
\* user: the id of the profile in the body (0 if none); accessToken,
\* refreshToken: the tokens the response hands out; data: the objects the
\* body carries, none unless added with Carrying.
Reply(op, req, status, message, detail, user, accessToken, refreshToken) ==
  [op |-> op, req |-> req, status |-> status, message |-> message,
   detail |-> detail, user |-> user, accessToken |-> accessToken,
   refreshToken |-> refreshToken, data |-> {}]

Carrying(reply, data) == [reply EXCEPT !.data = data]

\* next(error): the error handler's answer.
Fail(op, req, error) ==
  Reply(op, req, errorHandler(error).status, errorHandler(error).message,
        errorHandler(error).detail, 0, NoToken, NoToken)

\* The latest step answered no request.
NoResponse == Reply("none", Null, 0, "", Undefined, 0, NoToken, NoToken)

NoCall == [op |-> "none"]

\* No request went through a gate yet.
NoGate == [route |-> Null]

Init ==
  /\ users = <<>>
  /\ nextId = 1
  /\ now = 0
  /\ JWT_CONFIG \in StartedConfigs
  /\ jar = [accessToken |-> NoToken, refreshToken |-> NoToken]
  /\ pc = [p \in Procs |-> "idle"]
  /\ call = [p \in Procs |-> NoCall]
  /\ res = NoResponse
  /\ gate = NoGate
  /\ checkIns = <<>>

\* The clock advances.
Tick ==
  /\ now < MaxTime
  /\ now' = now + 1
  /\ res' = NoResponse
  /\ UNCHANGED <<users, nextId, JWT_CONFIG, jar, pc, call, gate, checkIns>>

(***************************************************************************)
(* AuthService.register behind AuthController.register.                    *)
(***************************************************************************)
\* Registrations in flight: each will take one id.
Registering == {q \in Procs : pc[q] \in {"reg_cpf", "reg_create"}}

\* The user object register and login return.
UserView(user) ==
  [id |-> user.id, name |-> user.name, email |-> user.email,
   role |-> user.role, gymId |-> user.gymId]

\* const { passwordHash, ...safeUser } = user, returning the user as it is.
removeSensitiveDataNothing(user) == user

\* const { passwordHash, ...safeUser } = user
removeSensitiveData(user) ==
  [field \in DOMAIN user \ {"passwordHash"} |-> user[field]]

\* The payload of the access token issued for a stored record.
AccessPayload(user) ==
  [userId |-> user.id, gymId |-> user.gymId, role |-> user.role]

\* register asking for the cpf before the email.
RegisterCheckCpfFirst(p, data) ==
  /\ pc[p] = "idle"
  /\ nextId + Cardinality(Registering) <= MaxUsers
  /\ IF Truthy(data.cpf) /\ existsByCpf(users, data.cpf)
     THEN /\ res' = Fail("register", data, AppError("CPF ja cadastrado", 409))
          /\ UNCHANGED <<pc, call>>
     ELSE IF existsByEmailAndGymId(users, data.email, data.gymId)
     THEN /\ res' = Fail("register", data,
                         AppError("E-mail ja cadastrado nesta academia", 409))
          /\ UNCHANGED <<pc, call>>
     ELSE /\ pc' = [pc EXCEPT ![p] =
                      IF Truthy(data.cpf) THEN "reg_cpf" ELSE "reg_create"]
          /\ call' = [call EXCEPT ![p] = [op |-> "register", data |-> data]]
          /\ res' = NoResponse
  /\ UNCHANGED <<users, nextId, now, JWT_CONFIG, jar, gate, checkIns>>

\* Step 1: existsByEmailAndGymId.
RegisterCheckEmail(p, data) ==
  /\ pc[p] = "idle"
  /\ nextId + Cardinality(Registering) <= MaxUsers
  /\ IF existsByEmailAndGymId(users, data.email, data.gymId)
     THEN /\ res' = Fail("register", data,
                         AppError("E-mail ja cadastrado nesta academia", 409))
          /\ UNCHANGED <<pc, call>>
     ELSE /\ pc' = [pc EXCEPT ![p] =
                      IF Truthy(data.cpf) THEN "reg_cpf" ELSE "reg_create"]
          /\ call' = [call EXCEPT ![p] = [op |-> "register", data |-> data]]
          /\ res' = NoResponse
  /\ UNCHANGED <<users, nextId, now, JWT_CONFIG, jar, gate, checkIns>>

\* Step 2, when a cpf is given: existsByCpf.
RegisterCheckCpf(p) ==
  /\ pc[p] = "reg_cpf"
  /\ IF existsByCpf(users, call[p].data.cpf)
     THEN /\ res' = Fail("register", call[p].data,
                         AppError("CPF ja cadastrado", 409))
          /\ pc' = [pc EXCEPT ![p] = "idle"]
          /\ call' = [call EXCEPT ![p] = NoCall]
     ELSE /\ pc' = [pc EXCEPT ![p] = "reg_create"]
          /\ res' = NoResponse
          /\ UNCHANGED call
  /\ UNCHANGED <<users, nextId, now, JWT_CONFIG, jar, gate, checkIns>>

\* The data of create with the role never taken from the request.
RegisterRowAsMember(data) ==
  [gymId |-> data.gymId, name |-> data.name, email |-> data.email,
   passwordHash |-> hashPassword(data.password), role |-> "MEMBER",
   cpf |-> data.cpf]

\* The data register hands to create.
RegisterRow(data) ==
  [gymId |-> data.gymId, name |-> data.name, email |-> data.email,
   passwordHash |-> hashPassword(data.password),
   role |-> IF data.role # Undefined THEN data.role ELSE "MEMBER",
   cpf |-> data.cpf]

\* Steps 3 to 6: hash, create, tokens; the controller sets both cookies.
RegisterCreate(p) ==
  /\ pc[p] = "reg_create"
  /\ LET data == RegisterRow(call[p].data)
         error == createError(users, nextId, data)
         user == createRow(nextId, data)
         accessToken == generateAccessToken(JWT_CONFIG, AccessPayload(user), now)
         refreshToken == generateRefreshToken(JWT_CONFIG, [userId |-> user.id], now)
     IN  IF error # NoError
         THEN /\ res' = Fail("register", call[p].data, error)
              /\ UNCHANGED <<users, nextId, jar>>
         ELSE /\ users' = create(users, nextId, data)
              /\ nextId' = nextId + 1
              /\ jar' = [accessToken |-> accessToken,
                         refreshToken |-> refreshToken]
              /\ res' = Carrying(Reply("register", call[p].data, 201,
                                       "Usuario registrado com sucesso",
                                       Undefined, user.id, accessToken,
                                       refreshToken),
                                 {UserView(user)})
  /\ pc' = [pc EXCEPT ![p] = "idle"]
  /\ call' = [call EXCEPT ![p] = NoCall]
  /\ UNCHANGED <<now, JWT_CONFIG, gate, checkIns>>

(***************************************************************************)
(* AuthService.login behind AuthController.login: one store access.        *)
(***************************************************************************)
\* login telling a wrong password from an unknown email.
loginErrorTellsPassword(user, password) ==
  IF user = Null THEN AppError("Credenciais invalidas", 401)
  ELSE IF ~user.isActive THEN AppError("Usuario inativo", 403)
  ELSE IF ~comparePassword(password, user.passwordHash)
  THEN AppError("Senha incorreta", 401)
  ELSE NoError

\* login verifying the password before the active flag.
loginErrorPasswordFirst(user, password) ==
  IF user = Null THEN AppError("Credenciais invalidas", 401)
  ELSE IF ~comparePassword(password, user.passwordHash)
  THEN AppError("Credenciais invalidas", 401)
  ELSE IF ~user.isActive THEN AppError("Usuario inativo", 403)
  ELSE NoError

\* The error login throws for the record found (Null if none), if any.
loginError(user, password) ==
  IF user = Null THEN AppError("Credenciais invalidas", 401)
  ELSE IF ~user.isActive THEN AppError("Usuario inativo", 403)
  ELSE IF ~comparePassword(password, user.passwordHash)
  THEN AppError("Credenciais invalidas", 401)
  ELSE NoError

Login(p, data) ==
  /\ pc[p] = "idle"
  /\ LET user == findByEmailAndGymId(users, data.email, data.gymId)
         error == loginError(user, data.password)
         accessToken == generateAccessToken(JWT_CONFIG, AccessPayload(user), now)
         refreshToken == generateRefreshToken(JWT_CONFIG, [userId |-> user.id], now)
     IN  IF error # NoError
         THEN /\ res' = Fail("login", data, error)
              /\ UNCHANGED jar
         ELSE /\ jar' = [accessToken |-> accessToken,
                         refreshToken |-> refreshToken]
              /\ res' = Carrying(Reply("login", data, 200,
                                       "Login realizado com sucesso",
                                       Undefined, user.id, accessToken,
                                       refreshToken),
                                 {UserView(user)})
  /\ UNCHANGED <<users, nextId, now, JWT_CONFIG, pc, call, gate, checkIns>>

(***************************************************************************)
(* AuthService.refreshAccessToken behind AuthController.refresh: one store *)
(* access.  A request carries the client's cookies and a body.             *)
(***************************************************************************)
\* a || b on optional tokens: an absent and an empty a both give b.
OrToken(a, b) == IF a \notin {NoToken, EmptyToken} THEN a ELSE b

\* A truthy JSON value of the body that is no string (a number, an object).
NotAString == [json |-> "number"]

\* refreshTokenSchema.parse({refreshToken}): the error thrown, if any.
refreshTokenSchema(refreshToken) ==
  IF refreshToken = NotAString THEN OtherError("ZodError") ELSE NoError

\* refreshAccessToken reading the store for the decoded subject before the
\* token is verified.
refreshErrorLookupFirst(cfg, us, refreshToken, t) ==
  IF findById(us, refreshToken.userId) = Null
  THEN AppError("Usuario nao encontrado", 404)
  ELSE IF verifyRefreshToken(cfg, refreshToken, t) # "ok"
  THEN AppError("Refresh token invalido ou expirado", 401)
  ELSE IF ~findById(us, refreshToken.userId).isActive
  THEN AppError("Usuario inativo", 403)
  ELSE NoError

\* refreshAccessToken refusing every token that was issued before the
\* present instant.
refreshErrorFreshOnly(cfg, us, refreshToken, t) ==
  IF \/ verifyRefreshToken(cfg, refreshToken, t) # "ok"
     \/ refreshToken.exp < t + RefreshExpiresIn
  THEN AppError("Refresh token invalido ou expirado", 401)
  ELSE IF findById(us, refreshToken.userId) = Null
  THEN AppError("Usuario nao encontrado", 404)
  ELSE IF ~findById(us, refreshToken.userId).isActive
  THEN AppError("Usuario inativo", 403)
  ELSE NoError

\* The error refreshAccessToken throws, if any: the token is verified
\* before the store is read.
refreshError(cfg, us, refreshToken, t) ==
  IF verifyRefreshToken(cfg, refreshToken, t) # "ok"
  THEN AppError("Refresh token invalido ou expirado", 401)
  ELSE IF findById(us, refreshToken.userId) = Null
  THEN AppError("Usuario nao encontrado", 404)
  ELSE IF ~findById(us, refreshToken.userId).isActive
  THEN AppError("Usuario inativo", 403)
  ELSE NoError

\* refreshAccessToken copying the claims of the token it was given.
RefreshPayloadFromToken(user, decoded) ==
  [userId |-> decoded.userId, gymId |-> decoded.gymId, role |-> decoded.role]

\* The payload of the access token refreshAccessToken issues.
RefreshPayload(user, decoded) == AccessPayload(user)

Refresh(p, req) ==
  /\ pc[p] = "idle"
  /\ LET refreshToken == OrToken(req.cookies.refreshToken, req.body.refreshToken)
         error == refreshError(JWT_CONFIG, users, refreshToken, now)
         user == findById(users, refreshToken.userId)
         accessToken ==
           generateAccessToken(JWT_CONFIG, RefreshPayload(user, refreshToken), now)
     IN  IF refreshToken \in {NoToken, EmptyToken}
         THEN /\ res' = Reply("refresh", req, 401, "Refresh token nao fornecido",
                              Undefined, 0, NoToken, NoToken)
              /\ UNCHANGED jar
         ELSE IF refreshTokenSchema(refreshToken) # NoError
         THEN /\ res' = Fail("refresh", req, refreshTokenSchema(refreshToken))
              /\ UNCHANGED jar
         ELSE IF error # NoError
         THEN /\ res' = Fail("refresh", req, error)
              /\ UNCHANGED jar
         ELSE /\ jar' = [jar EXCEPT !.accessToken = accessToken]
              /\ res' = Reply("refresh", req, 200, "Token renovado com sucesso",
                              Undefined, 0, accessToken, NoToken)
  /\ UNCHANGED <<users, nextId, now, JWT_CONFIG, pc, call, gate, checkIns>>

\* AuthController.logout: both cookies are cleared; nothing of the request
\* is read.
Logout(p, req) ==
  /\ pc[p] = "idle"
  /\ jar' = [accessToken |-> NoToken, refreshToken |-> NoToken]
  /\ res' = Reply("logout", req, 200, "Logout realizado com sucesso",
                  Undefined, 0, NoToken, NoToken)
  /\ UNCHANGED <<users, nextId, now, JWT_CONFIG, pc, call, gate, checkIns>>

(***************************************************************************)
(* UserService behind UserController.  rq is the identity the controller   *)
(* reads from the request: userId, role, gymId.  Each operation finds the  *)
(* record, checks it, and writes in a later step.                          *)
(***************************************************************************)
\* The request a response of these operations answers: its target.
Target(userId, rq) == [userId |-> userId, rq |-> rq]

\* updateUserSchema.parse(req.body): the schema names no gymId, and parse
\* drops what the schema does not name.
updateUserSchema(body) == [body EXCEPT !.gymId = Undefined]

\* The error updateUser throws before its uniqueness checks, if any; user is
\* the record findById returned.
updateUserError(user, rq) ==
  IF rq.role # "ADMIN"
  THEN AppError("Sem permissao para editar usuarios", 403)
  ELSE IF user = Null THEN AppError("Usuario nao encontrado", 404)
  ELSE IF user.gymId # rq.gymId
  THEN AppError("Nao e possivel editar usuarios de outra academia", 403)
  ELSE NoError

\* The await updateUser reaches once the email check is settled.
AfterEmail(data, user) ==
  IF Truthy(data.cpf) /\ data.cpf # user.cpf THEN "upd_cpf" ELSE "upd_write"

\* updateUser up to findById and the checks on its result.  Of the record
\* found, the later steps use gymId and cpf.
UpdateUserFind(p, userId, data, rq) ==
  /\ pc[p] = "idle"
  /\ LET user == findById(users, userId)
         error == updateUserError(user, rq)
     IN  IF error # NoError
         THEN /\ res' = Fail("updateUser", Target(userId, rq), error)
              /\ UNCHANGED <<pc, call>>
         ELSE /\ pc' = [pc EXCEPT ![p] =
                          IF Truthy(data.email) /\ data.email # user.email
                          THEN "upd_email" ELSE AfterEmail(data, user)]
              /\ call' = [call EXCEPT ![p] =
                            [op |-> "updateUser", userId |-> userId,
                             rq |-> rq, data |-> data,
                             user |-> [gymId |-> user.gymId, cpf |-> user.cpf]]]
              /\ res' = NoResponse
  /\ UNCHANGED <<users, nextId, now, JWT_CONFIG, jar, gate, checkIns>>

\* existsByEmailAndGymId, when the email changes.
UpdateUserCheckEmail(p) ==
  /\ pc[p] = "upd_email"
  /\ IF existsByEmailAndGymId(users, call[p].data.email, call[p].user.gymId)
     THEN /\ res' = Fail("updateUser", Target(call[p].userId, call[p].rq),
                         AppError("E-mail ja cadastrado", 409))
          /\ pc' = [pc EXCEPT ![p] = "idle"]
          /\ call' = [call EXCEPT ![p] = NoCall]
     ELSE /\ pc' = [pc EXCEPT ![p] = AfterEmail(call[p].data, call[p].user)]
          /\ res' = NoResponse
          /\ UNCHANGED call
  /\ UNCHANGED <<users, nextId, now, JWT_CONFIG, jar, gate, checkIns>>

\* existsByCpf, when the cpf changes.
UpdateUserCheckCpf(p) ==
  /\ pc[p] = "upd_cpf"
  /\ IF existsByCpf(users, call[p].data.cpf)
     THEN /\ res' = Fail("updateUser", Target(call[p].userId, call[p].rq),
                         AppError("CPF ja cadastrado", 409))
          /\ pc' = [pc EXCEPT ![p] = "idle"]
          /\ call' = [call EXCEPT ![p] = NoCall]
     ELSE /\ pc' = [pc EXCEPT ![p] = "upd_write"]
          /\ res' = NoResponse
          /\ UNCHANGED call
  /\ UNCHANGED <<users, nextId, now, JWT_CONFIG, jar, gate, checkIns>>

\* The last step of an operation: the write fails with error, or the store
\* becomes us and the controller answers 200 with message and, unless user
\* is 0, with the record of that id as the service returned it.
Write(p, op, error, us, message, user) ==
  /\ IF error # NoError
     THEN /\ res' = Fail(op, Target(call[p].userId, call[p].rq), error)
          /\ UNCHANGED users
     ELSE /\ users' = us
          /\ res' = Carrying(Reply(op, Target(call[p].userId, call[p].rq), 200,
                                   message, Undefined, user, NoToken, NoToken),
                             IF user = 0 THEN {}
                             ELSE {removeSensitiveData(us[user])})
  /\ pc' = [pc EXCEPT ![p] = "idle"]
  /\ call' = [call EXCEPT ![p] = NoCall]
  /\ UNCHANGED <<nextId, now, JWT_CONFIG, jar, gate, checkIns>>

\* userRepository.update(userId, data).
UpdateUserWrite(p) ==
  /\ pc[p] = "upd_write"
  /\ Write(p, "updateUser",
           updateError(users, call[p].userId, call[p].data),
           update(users, call[p].userId, call[p].data),
           "Usuario atualizado com sucesso", call[p].userId)

\* The first step of an operation that finds the record, checks it, and
\* writes in the step at next.
Find(p, op, userId, rq, error, next) ==
  /\ pc[p] = "idle"
  /\ IF error # NoError
     THEN /\ res' = Fail(op, Target(userId, rq), error)
          /\ UNCHANGED <<pc, call>>
     ELSE /\ pc' = [pc EXCEPT ![p] = next]
          /\ call' = [call EXCEPT ![p] =
                        [op |-> op, userId |-> userId, rq |-> rq]]
          /\ res' = NoResponse
  /\ UNCHANGED <<users, nextId, now, JWT_CONFIG, jar, gate, checkIns>>

\* The error deactivateUser throws before it writes, if any.
deactivateUserError(user, userId, rq) ==
  IF rq.role # "ADMIN"
  THEN AppError("Sem permissao para desativar usuarios", 403)
  ELSE IF userId = rq.userId
  THEN AppError("Nao e possivel desativar o proprio usuario", 400)
  ELSE IF user = Null THEN AppError("Usuario nao encontrado", 404)
  ELSE IF user.gymId # rq.gymId
  THEN AppError("Nao e possivel desativar usuarios de outra academia", 403)
  ELSE IF ~user.isActive THEN AppError("Usuario ja esta inativo", 400)
  ELSE NoError

DeactivateUserFind(p, userId, rq) ==
  Find(p, "deactivateUser", userId, rq,
       deactivateUserError(findById(users, userId), userId, rq), "deact_write")

\* userRepository.softDelete(userId).
DeactivateUserWrite(p) ==
  /\ pc[p] = "deact_write"
  /\ Write(p, "deactivateUser", updateError(users, call[p].userId, NoChange),
           softDelete(users, call[p].userId),
           "Usuario desativado com sucesso", call[p].userId)

\* The error reactivateUser throws before it writes, if any.
reactivateUserError(user, rq) ==
  IF rq.role # "ADMIN"
  THEN AppError("Sem permissao para reativar usuarios", 403)
  ELSE IF user = Null THEN AppError("Usuario nao encontrado", 404)
  ELSE IF user.gymId # rq.gymId
  THEN AppError("Nao e possivel reativar usuarios de outra academia", 403)
  ELSE IF user.isActive THEN AppError("Usuario ja esta ativo", 400)
  ELSE NoError

ReactivateUserFind(p, userId, rq) ==
  Find(p, "reactivateUser", userId, rq,
       reactivateUserError(findById(users, userId), rq), "react_write")

\* userRepository.reactivate(userId).
ReactivateUserWrite(p) ==
  /\ pc[p] = "react_write"
  /\ Write(p, "reactivateUser", updateError(users, call[p].userId, NoChange),
           reactivate(users, call[p].userId),
           "Usuario reativado com sucesso", call[p].userId)

\* The error deleteUser throws before it writes, if any.
deleteUserError(user, userId, rq) ==
  IF rq.role # "ADMIN"
  THEN AppError("Sem permissao para deletar usuarios", 403)
  ELSE IF userId = rq.userId
  THEN AppError("Nao e possivel deletar o proprio usuario", 400)
  ELSE IF user = Null THEN AppError("Usuario nao encontrado", 404)
  ELSE IF user.gymId # rq.gymId
  THEN AppError("Nao e possivel deletar usuarios de outra academia", 403)
  ELSE NoError

DeleteUserFind(p, userId, rq) ==
  Find(p, "deleteUser", userId, rq,
       deleteUserError(findById(users, userId), userId, rq), "del_write")

\* userRepository.delete(userId) of a user with no check-in.
DeleteUserWrite(p) ==
  /\ pc[p] = "del_write"
  /\ \A i \in DOMAIN checkIns : checkIns[i].userId # call[p].userId
  /\ Write(p, "deleteUser", deleteError(users, call[p].userId),
           delete(users, call[p].userId),
           "Usuario deletado permanentemente", 0)

\* userRepository.delete(userId) of a user with check-ins.  What the store
\* does with the rows that refer to the user is declared in schema.prisma,
\* which is not part of the sources: either the rows go with the user
\* (onDelete: Cascade) or the delete is refused with P2003.
DeleteUserWithCheckIns(p) ==
  /\ pc[p] = "del_write"
  /\ call[p].userId \in DOMAIN users
  /\ \E i \in DOMAIN checkIns : checkIns[i].userId = call[p].userId
  /\ \/ /\ users' = delete(users, call[p].userId)
        /\ checkIns' = SelectSeq(checkIns,
                                 LAMBDA row : row.userId # call[p].userId)
        /\ res' = Reply("deleteUser", Target(call[p].userId, call[p].rq), 200,
                        "Usuario deletado permanentemente", Undefined, 0,
                        NoToken, NoToken)
     \/ /\ res' = Fail("deleteUser", Target(call[p].userId, call[p].rq),
                       PrismaError("P2003", Undefined))
        /\ UNCHANGED <<users, checkIns>>
  /\ pc' = [pc EXCEPT ![p] = "idle"]
  /\ call' = [call EXCEPT ![p] = NoCall]
  /\ UNCHANGED <<nextId, now, JWT_CONFIG, jar, gate>>

(***************************************************************************)
(* CheckInService behind CheckInController, over PrismaCheckInRepository.  *)
(* A row has an id, userId, gymId, checkedInAt and validatedAt, <<>> for   *)
(* null and <<t>> for the date t.                                          *)
(***************************************************************************)
\* Instants in a calendar day.
DayLength == 2

\* The row of the id, Null if none.
findCheckInById(cs, id) ==
  IF \E i \in DOMAIN cs : cs[i].id = id
  THEN cs[CHOOSE i \in DOMAIN cs : cs[i].id = id]
  ELSE Null

\* hasCheckedInToday counting the user's rows of any day.
hasCheckedInEver(cs, userId, gymId, t) ==
  \E i \in DOMAIN cs : cs[i].userId = userId /\ cs[i].gymId = gymId

\* count({userId, gymId, checkedInAt: {gte: today, lt: tomorrow}}) > 0
hasCheckedInToday(cs, userId, gymId, t) ==
  LET today == (t \div DayLength) * DayLength
      tomorrow == today + DayLength
  IN  \E i \in DOMAIN cs :
        /\ cs[i].userId = userId
        /\ cs[i].gymId = gymId
        /\ cs[i].checkedInAt >= today
        /\ cs[i].checkedInAt < tomorrow

\* prisma.checkIn.create: the new row gets an id no row has.
checkInCreate(cs, data, t) ==
  Append(cs, [id |-> CHOOSE k \in 1..(Len(cs) + 1) :
                       \A i \in DOMAIN cs : cs[i].id # k,
              userId |-> data.userId, gymId |-> data.gymId,
              checkedInAt |-> t, validatedAt |-> <<>>])

\* CheckInService.create up to findById and the checks on its result.  The
\* rows and the creations in flight, each of which may add one, are bounded.
CheckInFind(p, rq) ==
  /\ pc[p] = "idle"
  /\ Len(checkIns)
       + Cardinality({q \in Procs : pc[q] \in {"ci_today", "ci_create"}})
       < MaxCheckIns
  /\ LET user == findById(users, rq.userId)
         error ==
           IF rq.role # "MEMBER"
           THEN AppError("Apenas membros podem fazer check-in", 403)
           ELSE IF user = Null THEN AppError("Usuario nao encontrado", 404)
           ELSE IF ~user.isActive
           THEN AppError("Usuario inativo nao pode fazer check-in", 403)
           ELSE NoError
     IN  Find(p, "createCheckIn", rq.userId, rq, error, "ci_today")

\* hasCheckedInToday(userId, gymId).
CheckInToday(p) ==
  /\ pc[p] = "ci_today"
  /\ IF hasCheckedInToday(checkIns, call[p].rq.userId, call[p].rq.gymId, now)
     THEN /\ res' = Fail("createCheckIn", Target(call[p].userId, call[p].rq),
                         AppError("Voce ja fez check-in hoje", 409))
          /\ pc' = [pc EXCEPT ![p] = "idle"]
          /\ call' = [call EXCEPT ![p] = NoCall]
     ELSE /\ pc' = [pc EXCEPT ![p] = "ci_create"]
          /\ res' = NoResponse
          /\ UNCHANGED call
  /\ UNCHANGED <<users, nextId, now, JWT_CONFIG, jar, gate, checkIns>>

\* The second findById, whose result is not used, and
\* checkInRepository.create({userId, gymId}).
CheckInCreate(p) ==
  /\ pc[p] = "ci_create"
  /\ checkIns' = checkInCreate(checkIns,
                               [userId |-> call[p].rq.userId,
                                gymId |-> call[p].rq.gymId], now)
  /\ res' = Carrying(Reply("createCheckIn", Target(call[p].userId, call[p].rq),
                           201, "Check-in realizado com sucesso", Undefined,
                           0, NoToken, NoToken),
                     {checkIns'[Len(checkIns')]})
  /\ pc' = [pc EXCEPT ![p] = "idle"]
  /\ call' = [call EXCEPT ![p] = NoCall]
  /\ UNCHANGED <<users, nextId, now, JWT_CONFIG, jar, gate>>

\* findManyWithFilters of the check-in repository with no gymId in where.
findManyCheckInsAnyGym(cs, filters) ==
  {cs[i] : i \in {j \in DOMAIN cs :
                    filters.userId # 0 => cs[j].userId = filters.userId}}

\* findManyWithFilters of the check-in repository: the rows of the gym,
\* of the user if the filter names one.
findManyCheckIns(cs, filters) ==
  {cs[i] : i \in {j \in DOMAIN cs :
                    /\ cs[j].gymId = filters.gymId
                    /\ filters.userId # 0 => cs[j].userId = filters.userId}}

\* CheckInService.list(filters, requester); a filter on no user is 0.
ListCheckIns(userId, rq) ==
  /\ pc[1] = "idle"
  /\ res' = Carrying(Reply("listCheckIns", Target(userId, rq), 200, "",
                           Undefined, 0, NoToken, NoToken),
                     findManyCheckIns(checkIns,
                       [userId |-> IF rq.role = "MEMBER" THEN rq.userId
                                   ELSE userId,
                        gymId |-> rq.gymId]))
  /\ UNCHANGED <<users, nextId, now, JWT_CONFIG, jar, pc, call, gate, checkIns>>

\* CheckInService.getUserHistory: findByUser(userId) of the repository.
GetUserHistory(userId, rq) ==
  /\ pc[1] = "idle"
  /\ LET user == findById(users, userId)
         error ==
           IF ~(userId = rq.userId \/ rq.role # "MEMBER")
           THEN AppError("Sem permissao para visualizar historico", 403)
           ELSE IF user = Null THEN AppError("Usuario nao encontrado", 404)
           ELSE IF user.gymId # rq.gymId
           THEN AppError("Usuario de outra academia", 403)
           ELSE NoError
     IN  res' = IF error # NoError
                THEN Fail("getUserHistory", Target(userId, rq), error)
                ELSE Carrying(Reply("getUserHistory", Target(userId, rq), 200,
                                    "", Undefined, 0, NoToken, NoToken),
                              {checkIns[i] : i \in {j \in DOMAIN checkIns :
                                 checkIns[j].userId = userId}})
  /\ UNCHANGED <<users, nextId, now, JWT_CONFIG, jar, pc, call, gate, checkIns>>

\* CheckInService.validate up to findById and the checks on its result.
ValidateFind(p, checkInId, rq) ==
  LET checkIn == findCheckInById(checkIns, checkInId)
      error ==
        IF rq.role = "MEMBER"
        THEN AppError("Sem permissao para validar check-ins", 403)
        ELSE IF checkIn = Null THEN AppError("Check-in nao encontrado", 404)
        ELSE IF checkIn.gymId # rq.gymId
        THEN AppError("Check-in de outra academia", 403)
        ELSE IF checkIn.validatedAt # <<>>
        THEN AppError("Check-in ja foi validado", 400)
        ELSE NoError
  IN  Find(p, "validate", checkInId, rq, error, "val_write")

\* checkInRepository.validate(id): validatedAt becomes the present date.
ValidateWrite(p) ==
  /\ pc[p] = "val_write"
  /\ IF findCheckInById(checkIns, call[p].userId) = Null
     THEN /\ res' = Fail("validate", Target(call[p].userId, call[p].rq),
                         PrismaError("P2025", Undefined))
          /\ UNCHANGED checkIns
     ELSE /\ checkIns' = [i \in DOMAIN checkIns |->
                            IF checkIns[i].id = call[p].userId
                            THEN [checkIns[i] EXCEPT !.validatedAt = <<now>>]
                            ELSE checkIns[i]]
          /\ res' = Carrying(Reply("validate",
                                   Target(call[p].userId, call[p].rq), 200,
                                   "Check-in validado com sucesso", Undefined,
                                   0, NoToken, NoToken),
                             {findCheckInById(checkIns', call[p].userId)})
  /\ pc' = [pc EXCEPT ![p] = "idle"]
  /\ call' = [call EXCEPT ![p] = NoCall]
  /\ UNCHANGED <<users, nextId, now, JWT_CONFIG, jar, gate>>

(***************************************************************************)
(* Request-time middleware.  A request carries a cookie, an Authorization  *)
(* header, a tenant id in up to three places, and the identity that        *)
(* authenticate attaches (userId 0 and Undefined fields until then).  A    *)
(* middleware returns the request it passes on and the error it hands to   *)
(* next, NoError when it calls next().                                     *)
(***************************************************************************)
\* An Authorization header with the Bearer scheme.
Bearer(token) == [scheme |-> "Bearer ", credentials |-> token]

\* req.headers.authorization?.replace('Bearer ', ''); an absent header is
\* NoToken.
tokenFromHeader(authorization) ==
  IF authorization = NoToken THEN NoToken ELSE authorization.credentials

\* authenticate reading the Authorization header before the cookie.
authenticateHeaderFirst(cfg, req, t) ==
  LET token == OrToken(tokenFromHeader(req.headers.authorization),
                       req.cookies.accessToken)
  IN  IF token \in {NoToken, EmptyToken}
      THEN [req |-> req,
            error |-> AppError("Token de autenticacao nao fornecido", 401)]
      ELSE IF verifyAccessToken(cfg, token, t) # "ok"
      THEN [req |-> req, error |-> AppError("Token invalido ou expirado", 401)]
      ELSE [req |-> [req EXCEPT !.userId = token.userId,
                                !.gymId = token.gymId,
                                !.userRole = token.role],
            error |-> NoError]

\* authenticate that also looks the subject up in the store, refuses it
\* when it is gone or inactive and attaches the stored role and tenant.
authenticateChecksStore(cfg, req, t) ==
  LET token == OrToken(req.cookies.accessToken,
                       tokenFromHeader(req.headers.authorization))
  IN  IF token \in {NoToken, EmptyToken}
      THEN [req |-> req,
            error |-> AppError("Token de autenticacao nao fornecido", 401)]
      ELSE IF \/ verifyAccessToken(cfg, token, t) # "ok"
              \/ token.userId \notin DOMAIN users
              \/ ~users[token.userId].isActive
      THEN [req |-> req, error |-> AppError("Token invalido ou expirado", 401)]
      ELSE [req |-> [req EXCEPT !.userId = token.userId,
                                !.gymId = users[token.userId].gymId,
                                !.userRole = users[token.userId].role],
            error |-> NoError]

authenticate(cfg, req, t) ==
  LET token == OrToken(req.cookies.accessToken,
                       tokenFromHeader(req.headers.authorization))
  IN  IF token \in {NoToken, EmptyToken}
      THEN [req |-> req,
            error |-> AppError("Token de autenticacao nao fornecido", 401)]
      ELSE IF verifyAccessToken(cfg, token, t) # "ok"
      THEN [req |-> req, error |-> AppError("Token invalido ou expirado", 401)]
      ELSE [req |-> [req EXCEPT !.userId = token.userId,
                                !.gymId = token.gymId,
                                !.userRole = token.role],
            error |-> NoError]

\* allowedRoles.join(', ')
RECURSIVE join(_)
join(roles) ==
  IF roles = <<>> THEN ""
  ELSE IF Len(roles) = 1 THEN roles[1]
  ELSE roles[1] \o ", " \o join(Tail(roles))

\* allowedRoles.includes(userRole)
includes(allowedRoles, userRole) ==
  \E i \in DOMAIN allowedRoles : allowedRoles[i] = userRole

\* authorize letting an ADMIN through whatever the route allows.
authorizeAdminAlways(allowedRoles, req) ==
  IF ~Truthy(req.userRole)
  THEN [req |-> req, error |-> AppError("Usuario nao autenticado", 401)]
  ELSE IF req.userRole # "ADMIN" /\ ~includes(allowedRoles, req.userRole)
  THEN [req |-> req,
        error |-> AppError("Acesso negado. Permissoes necessarias: "
                             \o join(allowedRoles), 403)]
  ELSE [req |-> req, error |-> NoError]

authorize(allowedRoles, req) ==
  IF ~Truthy(req.userRole)
  THEN [req |-> req, error |-> AppError("Usuario nao autenticado", 401)]
  ELSE IF ~includes(allowedRoles, req.userRole)
  THEN [req |-> req,
        error |-> AppError("Acesso negado. Permissoes necessarias: "
                             \o join(allowedRoles), 403)]
  ELSE [req |-> req, error |-> NoError]

\* validateGymAccess reading the body before the query and the path.
validateGymAccessBodyFirst(req) ==
  LET userGymId == req.gymId
      requestGymId == Or(req.body.gymId, Or(req.query.gymId, req.params.gymId))
  IN  IF ~Truthy(userGymId)
      THEN [req |-> req,
            error |-> AppError("Dados de academia nao encontrados na sessao",
                               401)]
      ELSE IF Truthy(requestGymId) /\ requestGymId # userGymId
      THEN [req |-> req,
            error |-> AppError("Acesso negado a recursos de outra academia",
                               403)]
      ELSE [req |-> req, error |-> NoError]

validateGymAccess(req) ==
  LET userGymId == req.gymId
      requestGymId == Or(req.params.gymId, Or(req.query.gymId, req.body.gymId))
  IN  IF ~Truthy(userGymId)
      THEN [req |-> req,
            error |-> AppError("Dados de academia nao encontrados na sessao",
                               401)]
      ELSE IF Truthy(requestGymId) /\ requestGymId # userGymId
      THEN [req |-> req,
            error |-> AppError("Acesso negado a recursos de outra academia",
                               403)]
      ELSE [req |-> req, error |-> NoError]

\* The middleware a route table can name.
Authenticate == [name |-> "authenticate", allowedRoles |-> <<>>]
Authorize(allowedRoles) == [name |-> "authorize", allowedRoles |-> allowedRoles]
ValidateGymAccess == [name |-> "validateGymAccess", allowedRoles |-> <<>>]

Apply(mw, cfg, req, t) ==
  CASE mw.name = "authenticate" -> authenticate(cfg, req, t)
    [] mw.name = "authorize" -> authorize(mw.allowedRoles, req)
    [] mw.name = "validateGymAccess" -> validateGymAccess(req)

\* Express runs a route's middleware in order and stops at the first that
\* hands an error to next: the request as the last one left it, that error,
\* and the names of the middleware that ran.
RECURSIVE Through(_, _, _, _)
Through(chain, cfg, req, t) ==
  IF chain = <<>> THEN [req |-> req, error |-> NoError, ran |-> <<>>]
  ELSE LET r == Apply(Head(chain), cfg, req, t)
           rest == Through(Tail(chain), cfg, r.req, t)
       IN  IF r.error # NoError
           THEN [req |-> r.req, error |-> r.error,
                 ran |-> <<Head(chain).name>>]
           ELSE [rest EXCEPT !.ran = <<Head(chain).name>> \o @]

(***************************************************************************)
(* Route tables.  A route: its router, method and path, the middleware in  *)
(* front of its handler (those of router.use first) and the handler.       *)
(***************************************************************************)
Route(router, method, path, chain, handler) ==
  [router |-> router, method |-> method, path |-> path, chain |-> chain,
   handler |-> handler]

authRouter ==
  {Route("authRouter", "POST", "/register", <<>>, "register"),
   Route("authRouter", "POST", "/login", <<>>, "login"),
   Route("authRouter", "POST", "/refresh", <<>>, "refresh"),
   Route("authRouter", "POST", "/logout", <<>>, "logout"),
   Route("authRouter", "GET", "/me", <<Authenticate>>, "getProfile")}

\* userRouter.use(authenticate) precedes every route of the router.
UserRoute(method, path, chain, handler) ==
  Route("userRouter", method, path, <<Authenticate>> \o chain, handler)

userRouter ==
  {UserRoute("GET", "/stats", <<Authorize(<<"INSTRUCTOR", "ADMIN">>)>>,
             "getGymStats"),
   UserRoute("GET", "/me", <<>>, "getOwnProfile"),
   UserRoute("PATCH", "/me", <<>>, "updateOwnProfile"),
   UserRoute("GET", "/", <<Authorize(<<"INSTRUCTOR", "ADMIN">>)>>,
             "listUsers"),
   UserRoute("GET", "/:id", <<>>, "getUserById"),
   UserRoute("PATCH", "/:id", <<Authorize(<<"ADMIN">>)>>, "updateUser"),
   UserRoute("POST", "/:id/deactivate", <<Authorize(<<"ADMIN">>)>>,
             "deactivateUser"),
   UserRoute("POST", "/:id/reactivate", <<Authorize(<<"ADMIN">>)>>,
             "reactivateUser"),
   UserRoute("DELETE", "/:id", <<Authorize(<<"ADMIN">>)>>, "deleteUser")}

\* checkInRouter.use(authenticate) precedes every route of the router.
CheckInRoute(method, path, chain, handler) ==
  Route("checkInRouter", method, path, <<Authenticate>> \o chain, handler)

checkInRouter ==
  {CheckInRoute("POST", "/", <<Authorize(<<"MEMBER">>)>>, "create"),
   CheckInRoute("GET", "/can-check-in", <<>>, "canCheckIn"),
   CheckInRoute("GET", "/stats", <<Authorize(<<"INSTRUCTOR", "ADMIN">>)>>,
                "getStats"),
   CheckInRoute("GET", "/me/history", <<>>, "getOwnHistory"),
   CheckInRoute("GET", "/", <<>>, "list"),
   CheckInRoute("GET", "/history/:userId", <<>>, "getUserHistory"),
   CheckInRoute("PATCH", "/:id/validate",
                <<Authorize(<<"INSTRUCTOR", "ADMIN">>)>>, "validate")}

Routes == authRouter \cup userRouter \cup checkInRouter

\* What the gate records of a request taken through chain at instant t: the
\* route (or the middleware called on its own), the request as it came in,
\* the middleware that ran, whether the handler was reached, and otherwise
\* the error handler's status and message (0 and "" when the handler
\* answers).
Passed(route, chain, cfg, req, t) ==
  LET r == Through(chain, cfg, req, t)
  IN  [route |-> route, req |-> req, at |-> t, ran |-> r.ran,
       handled |-> r.error = NoError,
       status |-> IF r.error = NoError THEN 0 ELSE errorHandler(r.error).status,
       message |-> IF r.error = NoError THEN ""
                   ELSE errorHandler(r.error).message,
       userId |-> r.req.userId, gymId |-> r.req.gymId,
       userRole |-> r.req.userRole]

\* A request arrives at a route; the gate takes one request at a time.
Dispatch(route, req) ==
  /\ gate = NoGate
  /\ gate' = Passed(route, route.chain, JWT_CONFIG, req, now)
  /\ res' = NoResponse
  /\ UNCHANGED <<users, nextId, now, JWT_CONFIG, jar, pc, call, checkIns>>

\* validateGymAccess called on a request whose identity is already attached.
Guard(req) ==
  /\ gate = NoGate
  /\ gate' = Passed(Route("none", "ANY", "*", <<ValidateGymAccess>>, "next"),
                    <<ValidateGymAccess>>, JWT_CONFIG, req, now)
  /\ res' = NoResponse
  /\ UNCHANGED <<users, nextId, now, JWT_CONFIG, jar, pc, call, checkIns>>

\* The request at the gate has been answered.
Leave ==
  /\ gate # NoGate
  /\ gate' = NoGate
  /\ res' = NoResponse
  /\ UNCHANGED <<users, nextId, now, JWT_CONFIG, jar, pc, call, checkIns>>

(***************************************************************************)
(* The client's requests to the protected routes: each carries the         *)
(* client's cookies, goes through the middleware of its route, and the     *)
(* controller calls the service with the identity authenticate attached.   *)
(* The response records the request as the gate saw it.                    *)
(***************************************************************************)
\* A query or a body without any of the fields the handlers read.
Blank ==
  [gymId |-> Undefined, name |-> Undefined, role |-> Undefined,
   isActive |-> Undefined, email |-> Undefined, cpf |-> Undefined]

\* The request of the client for the route of handler, taken through the
\* middleware of that route.
Session(handler, id, query, body) ==
  LET route == CHOOSE r \in Routes : r.handler = handler
  IN  Passed(route, route.chain, JWT_CONFIG,
             [cookies |-> jar, headers |-> [authorization |-> NoToken],
              params |-> [gymId |-> Undefined, id |-> id], query |-> query,
              body |-> body, userId |-> 0, gymId |-> Undefined,
              userRole |-> Undefined],
             now)

\* The answer to a request: that of the error handler if a middleware or
\* the service failed, else 200 with the data the service returned.
Answer(op, g, error, data) ==
  IF ~g.handled
  THEN Reply(op, g, g.status, g.message, Undefined, 0, NoToken, NoToken)
  ELSE IF error # NoError THEN Fail(op, g, error)
  ELSE Carrying(Reply(op, g, 200, "", Undefined, 0, NoToken, NoToken), data)

\* The error getProfile and updateOwnProfile throw for the record found.
profileError(user) ==
  IF user = Null THEN AppError("Usuario nao encontrado", 404)
  ELSE IF ~user.isActive THEN AppError("Usuario inativo", 403)
  ELSE NoError

\* GET /api/auth/me: AuthService.getProfile(req.userId).
GetProfile ==
  /\ pc[1] = "idle"
  /\ LET g == Session("getProfile", 0, Blank, Blank)
         user == findById(users, g.userId)
     IN  res' = Answer("getProfile", g, profileError(user),
                       {removeSensitiveData(user)})
  /\ UNCHANGED <<users, nextId, now, JWT_CONFIG, jar, pc, call, gate, checkIns>>

\* prisma.user.findMany({where, select}): the rows of the tenant that match
\* the optional filters, without their passwordHash.  The store holds less
\* than one page.
findManyWithFilters(us, filters) ==
  {[id |-> us[i].id, name |-> us[i].name, email |-> us[i].email,
    role |-> us[i].role, cpf |-> us[i].cpf, isActive |-> us[i].isActive,
    gymId |-> us[i].gymId] :
     i \in {j \in DOMAIN us :
              /\ us[j].gymId = filters.gymId
              /\ Truthy(filters.role) => us[j].role = filters.role
              /\ filters.isActive # Undefined =>
                   us[j].isActive = (filters.isActive = "true")}}

\* GET /api/users: UserService.listUsers(filters, requester).
ListUsers(query) ==
  /\ pc[1] = "idle"
  /\ LET g == Session("listUsers", 0, query, Blank)
         filters == [role |-> query.role, isActive |-> query.isActive,
                     gymId |-> g.gymId]
     IN  res' = Answer("listUsers", g,
                       IF g.userRole = "MEMBER"
                       THEN AppError("Sem permissao para listar usuarios", 403)
                       ELSE NoError,
                       {removeSensitiveData(user) :
                          user \in findManyWithFilters(users, filters)})
  /\ UNCHANGED <<users, nextId, now, JWT_CONFIG, jar, pc, call, gate, checkIns>>

\* The error getUserById throws, if any.
getUserByIdError(user, userId, rq) ==
  IF user = Null THEN AppError("Usuario nao encontrado", 404)
  ELSE IF ~(userId = rq.userId
            \/ (user.gymId = rq.gymId /\ rq.userRole # "MEMBER"))
  THEN AppError("Sem permissao para visualizar este usuario", 403)
  ELSE NoError

\* GET /api/users/:id: UserService.getUserById(id, requester).
GetUserById(userId) ==
  /\ pc[1] = "idle"
  /\ LET g == Session("getUserById", userId, Blank, Blank)
         user == findById(users, userId)
     IN  res' = Answer("getUserById", g, getUserByIdError(user, userId, g),
                       {removeSensitiveData(user)})
  /\ UNCHANGED <<users, nextId, now, JWT_CONFIG, jar, pc, call, gate, checkIns>>

\* updateOwnProfile handing the whole body to the repository.
ownProfileDataWholeBody(body) == body

\* updateProfileSchema.parse(req.body), then the fields updateOwnProfile
\* hands to the repository: of those of the model, the name.
ownProfileData(body) == [NoChange EXCEPT !.name = body.name]

\* PATCH /api/users/me: UserService.updateOwnProfile(req.userId, data),
\* findById and update in one step of the one client.
UpdateOwnProfile(body) ==
  /\ pc[1] = "idle"
  /\ LET g == Session("updateOwnProfile", 0, Blank, body)
         user == findById(users, g.userId)
         data == ownProfileData(body)
         error == IF g.handled /\ profileError(user) = NoError
                  THEN updateError(users, g.userId, data)
                  ELSE profileError(user)
     IN  /\ res' = Answer("updateOwnProfile", g, error,
                          {removeSensitiveData(
                             update(users, g.userId, data)[g.userId])})
         /\ users' = IF g.handled /\ error = NoError
                     THEN update(users, g.userId, data) ELSE users
  /\ UNCHANGED <<nextId, now, JWT_CONFIG, jar, pc, call, gate, checkIns>>

(***************************************************************************)
(* Specifications.                                                         *)
(***************************************************************************)
OptCpfs == {Undefined, Empty} \cup Cpfs

\* Identities a request can carry.
Requesters == [userId : Ids, role : {"ADMIN", "MEMBER"}, gymId : Gyms]

\* Refresh requests of the client: its cookies or none, and in the body
\* nothing, a token it holds, something made up or something that is no
\* string.
RefreshRequests ==
  [cookies : {jar, [accessToken |-> NoToken, refreshToken |-> NoToken]},
   body : [refreshToken :
             {NoToken, NotAString, GarbageToken, jar.accessToken,
              jar.refreshToken}]]

(***************************************************************************)
(* Spec: one client and its session.  Requests are handled one at a time;  *)
(* the client registers and logs in as e1 of g1, so the store holds at     *)
(* most one record at a time, which an administrator edits, deactivates,   *)
(* reactivates and deletes while the clock runs and tokens expire.         *)
(***************************************************************************)
SessionRegisterDTOs ==
  [name : {"n1"}, email : {"e1"}, gymId : {"g1"}, cpf : {Undefined},
   role : Roles \cup {Undefined}, password : {"p1"}]

LoginDTOs == [email : Emails, gymId : Gyms, password : Passwords]

SessionUpdateUserDTOs ==
  [gymId : {Undefined}, name : {Undefined}, email : {Undefined},
   role : Roles \cup {Undefined}, cpf : {Undefined},
   isActive : {Undefined, "true", "false"}]

\* What the client puts in a query or a body besides what the schema of
\* the route names.
SessionInputs ==
  [gymId : {Undefined}, name : {Undefined, "n2"}, role : {Undefined},
   isActive : {Undefined, "false"}, email : {Undefined}, cpf : {Undefined}]
    \cup [gymId : {"g2"}, name : {Undefined, "n2"}, role : {"ADMIN"},
          isActive : {"false"}, email : {Undefined}, cpf : {Undefined}]

Next ==
  \/ Tick
  \/ \E data \in SessionRegisterDTOs : RegisterCheckEmail(1, data)
  \/ RegisterCreate(1)
  \/ \E data \in LoginDTOs : Login(1, data)
  \/ \E req \in RefreshRequests : Refresh(1, req)
  \/ \E userId \in Ids, data \in SessionUpdateUserDTOs, rq \in Requesters :
       UpdateUserFind(1, userId, data, rq)
  \/ UpdateUserWrite(1)
  \/ \E userId \in Ids, rq \in Requesters : DeactivateUserFind(1, userId, rq)
  \/ DeactivateUserWrite(1)
  \/ \E userId \in Ids, rq \in Requesters : ReactivateUserFind(1, userId, rq)
  \/ ReactivateUserWrite(1)
  \/ \E userId \in Ids, rq \in Requesters : DeleteUserFind(1, userId, rq)
  \/ DeleteUserWrite(1)

Spec == Init /\ [][Next]_vars

(***************************************************************************)
(* SpecSession: the client registers and logs in as e1 of g1 and calls the *)
(* protected routes with its cookies, while administrators of either       *)
(* tenant, and the registered user itself, edit, deactivate, reactivate    *)
(* and delete the record and the clock runs.                               *)
(***************************************************************************)
SessionLoginDTOs == [email : {"e1"}, gymId : {"g1"}, password : {"p1"}]

\* The refresh request with the client's cookies and an empty body.
SessionRefreshRequests == [cookies : {jar}, body : [refreshToken : {NoToken}]]

\* Bodies sent to PATCH /api/users/:id: a role, the active flag, and one
\* that also names another tenant.
SessionRoleDTOs ==
  [gymId : {Undefined}, name : {Undefined}, email : {Undefined},
   role : {Undefined, "ADMIN", "MEMBER"}, cpf : {Undefined},
   isActive : {Undefined, "false"}]
    \cup [gymId : {"g2"}, name : {Undefined}, email : {Undefined},
          role : {"ADMIN"}, cpf : {Undefined}, isActive : {Undefined}]

NextSession ==
  \/ Tick
  \/ GetProfile
  \/ \E query \in SessionInputs : ListUsers(query)
  \/ \E userId \in Ids : GetUserById(userId)
  \/ \E body \in SessionInputs : UpdateOwnProfile(body)
  \/ \E data \in SessionRegisterDTOs : RegisterCheckEmail(1, data)
  \/ RegisterCreate(1)
  \/ \E data \in SessionLoginDTOs : Login(1, data)
  \/ \E req \in SessionRefreshRequests : Refresh(1, req)
  \/ \E userId \in Ids, body \in SessionRoleDTOs, rq \in Requesters :
       UpdateUserFind(1, userId, updateUserSchema(body), rq)
  \/ UpdateUserWrite(1)
  \/ \E userId \in Ids, rq \in Requesters : DeactivateUserFind(1, userId, rq)
  \/ DeactivateUserWrite(1)
  \/ \E userId \in Ids, rq \in Requesters : ReactivateUserFind(1, userId, rq)
  \/ ReactivateUserWrite(1)
  \/ \E userId \in Ids, rq \in Requesters : DeleteUserFind(1, userId, rq)
  \/ DeleteUserWrite(1)

SpecSession == Init /\ [][NextSession]_vars

(***************************************************************************)
(* SpecStore: the credential store under concurrent requests.  Two request *)
(* handlers interleave at every await; the clock stands still.             *)
(***************************************************************************)
StoreRegisterDTOs ==
  [name : {"n1"}, email : Emails, gymId : Gyms, cpf : {Undefined} \cup Cpfs,
   role : {Undefined}, password : {"p1"}]

\* An update changes the email or the cpf.
StoreUpdateUserDTOs ==
  {data \in [gymId : {Undefined}, name : {Undefined},
             email : Emails \cup {Undefined},
             role : {Undefined}, cpf : {Undefined} \cup Cpfs,
             isActive : {Undefined}] :
     (data.email = Undefined) # (data.cpf = Undefined)}

Admins == [userId : {0}, role : {"ADMIN"}, gymId : Gyms]

NextStore ==
  \E p \in Procs :
    \/ \E data \in StoreRegisterDTOs : RegisterCheckEmail(p, data)
    \/ RegisterCheckCpf(p)
    \/ RegisterCreate(p)
    \/ \E userId \in Ids, data \in StoreUpdateUserDTOs, rq \in Admins :
         UpdateUserFind(p, userId, data, rq)
    \/ UpdateUserCheckEmail(p)
    \/ UpdateUserCheckCpf(p)
    \/ UpdateUserWrite(p)
    \/ \E userId \in Ids, rq \in Admins : DeactivateUserFind(p, userId, rq)
    \/ DeactivateUserWrite(p)
    \/ \E userId \in Ids, rq \in Admins : ReactivateUserFind(p, userId, rq)
    \/ ReactivateUserWrite(p)
    \/ \E userId \in Ids, rq \in Admins : DeleteUserFind(p, userId, rq)
    \/ DeleteUserWrite(p)

SpecStore == Init /\ [][NextStore]_vars

(***************************************************************************)
(* SpecTokens: the client keeps every token it was ever sent.  It          *)
(* registers, logs in and out and asks for refreshes with its cookies or   *)
(* with a kept token in the body, while administrators deactivate,         *)
(* reactivate and delete the record and the clock runs.                    *)
(***************************************************************************)
\* The refresh tokens register and login have issued or can have issued so
\* far: one for each id given out, at each instant up to now.
KeptRefreshTokens ==
  {generateRefreshToken(JWT_CONFIG, [userId |-> id], t) :
     id \in 1..(nextId - 1), t \in 0..now}

KeptRefreshRequests ==
  [cookies : {jar, [accessToken |-> NoToken, refreshToken |-> NoToken]},
   body : [refreshToken : {NoToken} \cup KeptRefreshTokens]]

LogoutRequests ==
  [cookies : {jar, [accessToken |-> GarbageToken, refreshToken |-> NoToken]},
   body : [refreshToken : {NoToken}]]

NextTokens ==
  \/ Tick
  \/ \E data \in SessionRegisterDTOs : RegisterCheckEmail(1, data)
  \/ RegisterCreate(1)
  \/ \E data \in SessionLoginDTOs : Login(1, data)
  \/ \E req \in LogoutRequests : Logout(1, req)
  \/ \E req \in KeptRefreshRequests : Refresh(1, req)
  \/ \E userId \in Ids, rq \in Admins : DeactivateUserFind(1, userId, rq)
  \/ DeactivateUserWrite(1)
  \/ \E userId \in Ids, rq \in Admins : ReactivateUserFind(1, userId, rq)
  \/ ReactivateUserWrite(1)
  \/ \E userId \in Ids, rq \in Admins : DeleteUserFind(1, userId, rq)
  \/ DeleteUserWrite(1)

SpecTokens == Init /\ [][NextTokens]_vars

(***************************************************************************)
(* SpecTenants: users of two tenants register and log in, and requesters   *)
(* of every role call the user and the check-in services, one call at a    *)
(* time.                                                                   *)
(***************************************************************************)
\* The identities authenticate can attach: those of the access tokens
\* issued so far.  A token carries the tenant of its subject's record,
\* which no operation changes, and the role the record had at the issue;
\* the record can be gone.
Identities ==
  {rq \in [userId : Ids, role : Roles, gymId : Gyms] :
     rq.userId \in DOMAIN users => users[rq.userId].gymId = rq.gymId}

NextTenants ==
  \/ \E data \in [name : {"n1"}, email : {"e1"}, gymId : Gyms,
                  cpf : {Undefined}, role : {"ADMIN", "MEMBER"},
                  password : {"p1"}] :
       RegisterCheckEmail(1, data)
  \/ RegisterCreate(1)
  \/ \E data \in [email : {"e1"}, gymId : Gyms, password : {"p1"}] :
       Login(1, data)
  \/ \E query \in [gymId : {Undefined, "g2"}, name : {Undefined},
                   role : {Undefined}, isActive : {Undefined},
                   email : {Undefined}, cpf : {Undefined}] :
       ListUsers(query)
  \/ \E userId \in Ids : GetUserById(userId)
  \/ \E userId \in Ids, rq \in Identities,
        body \in [gymId : {"g2"}, name : {Undefined},
                  email : {Undefined}, role : {Undefined},
                  cpf : {Undefined}, isActive : {"false"}] :
       UpdateUserFind(1, userId, updateUserSchema(body), rq)
  \/ UpdateUserWrite(1)
  \/ \E userId \in Ids, rq \in Identities : DeactivateUserFind(1, userId, rq)
  \/ DeactivateUserWrite(1)
  \/ \E userId \in Ids, rq \in Identities : ReactivateUserFind(1, userId, rq)
  \/ ReactivateUserWrite(1)
  \/ \E userId \in Ids, rq \in Identities : DeleteUserFind(1, userId, rq)
  \/ DeleteUserWrite(1)
  \/ DeleteUserWithCheckIns(1)
  \/ \E rq \in Identities : CheckInFind(1, rq)
  \/ CheckInToday(1)
  \/ CheckInCreate(1)
  \/ \E userId \in {0} \cup Ids, rq \in Identities : ListCheckIns(userId, rq)
  \/ \E userId \in Ids, rq \in Identities : GetUserHistory(userId, rq)
  \/ \E id \in 1..MaxCheckIns, rq \in Identities : ValidateFind(1, id, rq)
  \/ ValidateWrite(1)

InitTenants == Init /\ JWT_CONFIG.accessSecret # JWT_CONFIG.refreshSecret

SpecTenants == InitTenants /\ [][NextTenants]_vars

(***************************************************************************)
(* SpecCheckIns: members register, with the national ID omitted or left    *)
(* empty, and check in while the clock runs through two days; two check-in *)
(* calls interleave at their awaits.                                       *)
(***************************************************************************)
NextCheckIns ==
  \/ Tick
  \/ \E data \in [name : {"n1"}, email : Emails, gymId : {"g1"},
                  cpf : {Undefined, Empty}, role : {Undefined},
                  password : {"p1"}] :
       RegisterCheckEmail(1, data)
  \/ RegisterCreate(1)
  \/ \E p \in Procs, rq \in Identities : CheckInFind(p, rq)
  \/ \E p \in Procs : CheckInToday(p)
  \/ \E p \in Procs : CheckInCreate(p)

SpecCheckIns == Init /\ [][NextCheckIns]_vars

(***************************************************************************)
(* SpecGate: requests at the route tables.  A request presents, as cookie  *)
(* and as Bearer header, nothing, a token of either class the service      *)
(* issued at some instant up to now, or a token it never issued; the clock *)
(* runs, so tokens expire.                                                 *)
(***************************************************************************)
\* Identities the service issues tokens for.
Subjects == [userId : {1}, gymId : {"g1"}, role : Roles]

\* A token with the claims of an ADMIN, signed with a key that is not the
\* server's.
ForgedToken ==
  JwtSign([userId |-> 1, gymId |-> "g1", role |-> "ADMIN"], "forged",
          AccessExpiresIn, MaxTime)

PresentedTokens ==
  {NoToken, EmptyToken, ForgedToken}
    \cup {generateAccessToken(JWT_CONFIG, payload, t) :
            payload \in Subjects, t \in 0..now}
    \cup {generateRefreshToken(JWT_CONFIG, payload, t) :
            payload \in Subjects, t \in 0..now}

OptGyms == {Undefined, Empty} \cup Gyms

\* Requests as they reach a router: no identity attached.  No route has a
\* gymId path parameter.
RoutedRequests ==
  [cookies : [accessToken : PresentedTokens],
   headers : [authorization :
                {NoToken} \cup {Bearer(token) : token \in PresentedTokens \ {NoToken}}],
   params : [gymId : {Undefined}], query : [gymId : {Undefined, "g2"}],
   body : [gymId : {Undefined}],
   userId : {0}, gymId : {Undefined}, userRole : {Undefined}]

\* Requests as a middleware after authenticate can see them.
GuardedRequests ==
  [cookies : [accessToken : {NoToken}], headers : [authorization : {NoToken}],
   params : [gymId : OptGyms], query : [gymId : OptGyms],
   body : [gymId : OptGyms],
   userId : {1}, gymId : OptGyms, userRole : {Undefined, "ADMIN", "MEMBER"}]

NextGate ==
  \/ Tick
  \/ gate = NoGate /\ \E route \in Routes, req \in RoutedRequests :
                        Dispatch(route, req)
  \/ gate = NoGate /\ \E req \in GuardedRequests : Guard(req)
  \/ Leave

SpecGate == Init /\ [][NextGate]_vars

(***************************************************************************)
(* The token codec and the error handler on their own: a token of either   *)
(* class is generated, possibly altered on its way, and verified by either *)
(* verifier; an error is handed to the error handler.  call[1] holds the   *)
(* token under test and what was done to it.                               *)
(***************************************************************************)
TokenClasses == {"access", "refresh"}

Payloads == [userId : Ids, gymId : Gyms, role : Roles]

\* What can be altered in a token: one of its claims, or its signature.
Alterations == {"userId", "gymId", "role", "exp", "signature"}

\* generateAccessToken(payload) or generateRefreshToken({userId}).
Generate(class, payload) ==
  /\ call' = [call EXCEPT ![1] =
       [op |-> "codec", class |-> class, payload |-> payload, iat |-> now,
        altered |-> "none",
        token |-> IF class = "access"
                  THEN generateAccessToken(JWT_CONFIG, payload, now)
                  ELSE generateRefreshToken(JWT_CONFIG, payload, now)]]
  /\ res' = NoResponse
  /\ UNCHANGED <<users, nextId, now, JWT_CONFIG, jar, pc, gate, checkIns>>

\* The token with one part replaced by another value.
Altered(token, part) ==
  CASE part = "userId" ->
         {[token EXCEPT !.userId = v] : v \in Ids \ {token.userId}}
    [] part = "gymId" ->
         {[token EXCEPT !.gymId = v] : v \in Gyms \ {token.gymId}}
    [] part = "role" ->
         {[token EXCEPT !.role = v] : v \in Roles \ {token.role}}
    [] part = "exp" -> {[token EXCEPT !.exp = token.exp + 1]}
    [] part = "signature" -> {[token EXCEPT !.signed = <<>>]}

\* Somebody between the issue and the verification alters the token.
Tamper(part) ==
  /\ call[1].op = "codec"
  /\ call[1].altered = "none"
  /\ \E token \in Altered(call[1].token, part) :
       call' = [call EXCEPT ![1].token = token, ![1].altered = part]
  /\ res' = NoResponse
  /\ UNCHANGED <<users, nextId, now, JWT_CONFIG, jar, pc, gate, checkIns>>

\* The outcome of a verifier: its message and, if it accepted, the payload.
Verified(op, outcome) ==
  Carrying(Reply(op, call[1], 0, outcome, Undefined, 0, NoToken, NoToken),
           IF outcome = "ok" THEN {Decoded(call[1].token)} ELSE {})

VerifyAccess ==
  /\ call[1].op = "codec"
  /\ res' = Verified("verifyAccessToken",
                     verifyAccessToken(JWT_CONFIG, call[1].token, now))
  /\ UNCHANGED <<users, nextId, now, JWT_CONFIG, jar, pc, call, gate, checkIns>>

VerifyRefresh ==
  /\ call[1].op = "codec"
  /\ res' = Verified("verifyRefreshToken",
                     verifyRefreshToken(JWT_CONFIG, call[1].token, now))
  /\ UNCHANGED <<users, nextId, now, JWT_CONFIG, jar, pc, call, gate, checkIns>>

\* The errors a handler can pass to next().
PrismaCodes == {"P2002", "P2025", "P2003", "P2014"}

Errors ==
  {AppError(m, c) : m \in {"Email ja cadastrado"}, c \in {401, 403, 404, 409}}
    \cup {PrismaError(c, t) : c \in PrismaCodes, t \in {"email", "cpf"}}
    \cup {OtherError(n) : n \in {"ZodError", "TypeError"}}

\* errorHandler(error, req, res, next).
Handle(error) ==
  /\ res' = Fail("errorHandler", error, error)
  /\ UNCHANGED <<users, nextId, now, JWT_CONFIG, jar, pc, call, gate, checkIns>>

NextUnits ==
  \/ Tick
  \/ \E class \in TokenClasses, payload \in Payloads : Generate(class, payload)
  \/ \E part \in Alterations : Tamper(part)
  \/ VerifyAccess
  \/ VerifyRefresh
  \/ \E error \in Errors : Handle(error)

SpecUnits == Init /\ [][NextUnits]_vars

(***************************************************************************)
(* SpecStartup: the process from the load of the token codec on, with      *)
(* each secret of the environment absent, empty or set.  The codec's       *)
(* functions exist only once its module has loaded.                        *)
(***************************************************************************)
\* if (!secrets.accessSecret && !secrets.refreshSecret): only both missing
\* stop the load.
SecretsMissingBoth(cfg) == ~Truthy(cfg.accessSecret) /\ ~Truthy(cfg.refreshSecret)

\* if (!JWT_CONFIG.accessSecret || !JWT_CONFIG.refreshSecret)
SecretsMissing(cfg) == ~Truthy(cfg.accessSecret) \/ ~Truthy(cfg.refreshSecret)

InitStartup ==
  /\ users = <<>>
  /\ nextId = 1
  /\ now = 0
  /\ JWT_CONFIG \in [accessSecret : {Undefined, Empty} \cup Secrets,
                     refreshSecret : {Undefined, Empty} \cup Secrets]
  /\ jar = [accessToken |-> NoToken, refreshToken |-> NoToken]
  /\ pc = [p \in Procs |-> "loading"]
  /\ call = [p \in Procs |-> NoCall]
  /\ res = NoResponse
  /\ gate = NoGate
  /\ checkIns = <<>>

\* The module is evaluated: the check throws and the process ends, or the
\* exports become available.
LoadJwtUtil ==
  /\ pc[1] = "loading"
  /\ pc' = [p \in Procs |->
              IF SecretsMissing(JWT_CONFIG) THEN "crashed" ELSE "idle"]
  /\ res' = NoResponse
  /\ UNCHANGED <<users, nextId, now, JWT_CONFIG, jar, call, gate, checkIns>>

NextStartup ==
  \/ LoadJwtUtil
  \/ /\ pc[1] = "idle"
     /\ \/ Tick
        \/ \E class \in TokenClasses, payload \in Payloads :
             Generate(class, payload)
        \/ \E part \in Alterations : Tamper(part)
        \/ VerifyAccess
        \/ VerifyRefresh

SpecStartup == InitStartup /\ [][NextStartup]_vars

(***************************************************************************)
(* Properties.                                                             *)
(***************************************************************************)
\* Some record of us holds this email in this tenant.
PairHeld(us, email, gymId) ==
  \E i \in DOMAIN us : us[i].email = email /\ us[i].gymId = gymId

\* Some record of us holds this email in another tenant.
HeldElsewhere(us, email, gymId) ==
  \E i \in DOMAIN us : us[i].email = email /\ us[i].gymId # gymId

\* Some record of us holds this national ID.
CpfHeld(us, cpf) == \E i \in DOMAIN us : us[i].cpf = cpf

\* This step answers a register request with 201 and adds exactly the
\* record of the requested email and tenant.
RegisterSucceeds ==
  /\ res'.status = 201
  /\ res'.user \notin DOMAIN users
  /\ DOMAIN users' = DOMAIN users \cup {res'.user}
  /\ users'[res'.user].email = res'.req.email
  /\ users'[res'.user].gymId = res'.req.gymId
  /\ \A i \in DOMAIN users : users'[i] = users[i]

\* This step answers a register request for a pair that has a record with
\* 409 and leaves the store alone.
DuplicatePairRefused ==
  (res'.op = "register" /\ PairHeld(users, res'.req.email, res'.req.gymId))
    => res'.status = 409 /\ users' = users

\* C1 as stated: a register for a pair that has a record is answered 409 and
\* creates nothing, and a register for an email that only other tenants
\* hold succeeds and creates the record in the requested tenant.
C1_AsStated ==
  [][/\ DuplicatePairRefused
     /\ (/\ res'.op = "register"
         /\ ~PairHeld(users, res'.req.email, res'.req.gymId)
         /\ HeldElsewhere(users, res'.req.email, res'.req.gymId))
        => RegisterSucceeds]_vars

\* C1 amended: a register for a pair that has a record is answered 409 and
\* creates nothing; a register for an email that only other tenants hold
\* succeeds and creates the record in the requested tenant provided the
\* national ID it carries, if any, is held by no record; if it is held the
\* register is answered 409 and creates nothing.
C1_RegisterByPair ==
  [][/\ DuplicatePairRefused
     /\ (/\ res'.op = "register"
         /\ res'.req.cpf # Undefined
         /\ CpfHeld(users, res'.req.cpf))
        => (res'.status = 409 /\ users' = users)
     /\ (/\ res'.op = "register"
         /\ ~PairHeld(users, res'.req.email, res'.req.gymId)
         /\ HeldElsewhere(users, res'.req.email, res'.req.gymId)
         /\ (res'.req.cpf = Undefined \/ ~CpfHeld(users, res'.req.cpf)))
        => RegisterSucceeds]_vars

\* A registration succeeded for an email another tenant holds.
C1_Witness ==
  /\ res.op = "register"
  /\ res.status = 201
  /\ HeldElsewhere(users, res.req.email, res.req.gymId)

\* C2: in every reachable state of the store no two records share an
\* (email, tenant) pair and no two records share a national ID that is
\* present.
C2_Unique ==
  \A i, j \in DOMAIN users :
    i # j =>
      /\ ~(users[i].email = users[j].email /\ users[i].gymId = users[j].gymId)
      /\ ~(users[i].cpf # Undefined /\ users[i].cpf = users[j].cpf)

\* Two records are stored and the store just refused a write that would
\* have made a third value collide.
C2_Witness ==
  /\ Cardinality(DOMAIN users) = 2
  /\ res.status = 409
  /\ res.detail \in {"email_gymId", "cpf"}

\* C3: a register call that passed its existence check and reaches create
\* when the pair has a record by then is answered 409 and creates nothing.
C3_RaceConflict ==
  [][\A p \in Procs :
       (/\ pc[p] = "reg_create"
        /\ pc'[p] = "idle"
        /\ PairHeld(users, call[p].data.email, call[p].data.gymId))
       => res'.op = "register" /\ res'.status = 409 /\ users' = users]_vars

\* A register call lost the race: the store refused its create on the
\* (email, tenant) index and the answer is 409.
C3_Witness ==
  /\ res.op = "register"
  /\ res.status = 409
  /\ res.detail = "email_gymId"
  /\ PairHeld(users, res.req.email, res.req.gymId)

\* The records a login request addresses.
Addressed(us, data) ==
  {i \in DOMAIN us : us[i].email = data.email /\ us[i].gymId = data.gymId}

\* The step issues no token.
NoTokenIssued ==
  res'.accessToken = NoToken /\ res'.refreshToken = NoToken /\ jar' = jar

\* C4: a login for an email with no record in the tenant, and a login with
\* a password that does not match an active record, are both answered 401
\* with the one message "Credenciais invalidas" and issue no token.
C4_LoginGeneric401 ==
  [][(/\ res'.op = "login"
       /\ \/ Addressed(users, res'.req) = {}
          \/ \E i \in Addressed(users, res'.req) :
               /\ users[i].isActive
               /\ ~comparePassword(res'.req.password, users[i].passwordHash))
     => /\ res'.status = 401
        /\ res'.message = "Credenciais invalidas"
        /\ NoTokenIssued]_vars

\* A login with a wrong password for an active record was answered 401.
C4_Witness ==
  /\ res.op = "login"
  /\ res.status = 401
  /\ \E i \in Addressed(users, res.req) :
       /\ users[i].isActive
       /\ ~comparePassword(res.req.password, users[i].passwordHash)

\* C5: a login that addresses an inactive record is answered 403 and issues
\* no token, whether the password matches or not.
C5_InactiveLogin403 ==
  [][(/\ res'.op = "login"
       /\ \E i \in Addressed(users, res'.req) : ~users[i].isActive)
     => res'.status = 403 /\ NoTokenIssued]_vars

\* A login with a wrong password for an inactive record was answered 403.
C5_Witness ==
  /\ res.op = "login"
  /\ res.status = 403
  /\ \E i \in Addressed(users, res.req) :
       /\ ~users[i].isActive
       /\ ~comparePassword(res.req.password, users[i].passwordHash)

\* The refresh token a refresh request presents: the cookie, else the body.
Presented(req) ==
  IF req.cookies.refreshToken # NoToken THEN req.cookies.refreshToken
  ELSE req.body.refreshToken

\* C6: the access token of a successful refresh carries the subject, the
\* tenant and the role of the credential record as it is at the refresh.
C6_RefreshLiveClaims ==
  (res.op = "refresh" /\ res.status = 200)
    => /\ Presented(res.req).userId \in DOMAIN users
       /\ res.accessToken.userId = users[Presented(res.req).userId].id
       /\ res.accessToken.gymId = users[Presented(res.req).userId].gymId
       /\ res.accessToken.role = users[Presented(res.req).userId].role

\* A refresh succeeded after the role was changed: the access token that
\* came with the refresh token names another role than the new one.
C6_Witness ==
  /\ res.op = "refresh"
  /\ res.status = 200
  /\ res.req.cookies.accessToken # NoToken
  /\ res.req.cookies.accessToken.userId = res.accessToken.userId
  /\ res.req.cookies.accessToken.role # res.accessToken.role

\* The refresh token verifies as one: signature, expiry, audience, issuer.
VerifiesAsRefresh(token) ==
  /\ token \notin {NoToken, NotAString}
  /\ token.secret = JWT_CONFIG.refreshSecret
  /\ now < token.exp
  /\ token.aud = AUDIENCE
  /\ token.iss = ISSUER

\* The status refresh owes a request, by the order of its checks.
RefreshStatus(req) ==
  IF ~VerifiesAsRefresh(Presented(req)) THEN 401
  ELSE IF Presented(req).userId \notin DOMAIN users THEN 404
  ELSE IF ~users[Presented(req).userId].isActive THEN 403
  ELSE 200

\* C7: for every token string, refresh answers 401 for a token that does not
\* verify, whatever the store holds, else 404 for a subject with no record,
\* else 403 for an inactive subject, else 200 with one new access token and
\* no refresh token; and it never changes the store.
C7_RefreshOrder ==
  /\ []((res.op = "refresh" /\ Presented(res.req) # NotAString)
          => /\ res.status = RefreshStatus(res.req)
             /\ res.refreshToken = NoToken
             /\ (res.accessToken # NoToken) = (res.status = 200))
  /\ [][res'.op = "refresh" => users' = users]_vars

\* A refresh with a verified token of an inactive subject was answered 403.
C7_Witness ==
  /\ res.op = "refresh"
  /\ res.status = 403
  /\ VerifiesAsRefresh(Presented(res.req))

\* The access token a request presents: the cookie's unless absent or
\* empty, else the header's unless absent or empty.
PresentedAccess(req) ==
  IF req.cookies.accessToken \notin {NoToken, EmptyToken}
  THEN req.cookies.accessToken
  ELSE IF /\ req.headers.authorization # NoToken
          /\ req.headers.authorization.credentials # EmptyToken
  THEN req.headers.authorization.credentials
  ELSE NoToken

\* The token verified as an access token at instant t.
VerifiesAsAccess(token, t) ==
  /\ token \notin {NoToken, EmptyToken}
  /\ token.secret = JWT_CONFIG.accessSecret
  /\ t < token.exp
  /\ token.aud = AUDIENCE
  /\ token.iss = ISSUER

\* The request at the gate went to a route guarded by authenticate and then
\* authorize.
AtAuthorizedRoute ==
  /\ gate # NoGate
  /\ Len(gate.route.chain) = 2
  /\ gate.route.chain[1] = Authenticate
  /\ gate.route.chain[2].name = "authorize"

\* The roles the route at the gate allows.
Allowed ==
  {gate.route.chain[2].allowedRoles[i] :
     i \in DOMAIN gate.route.chain[2].allowedRoles}

\* C8: at a route guarded by authenticate and authorize(R) the handler runs
\* only for a presented access token that verifies and whose role is in R;
\* a request with no token is answered 401, and one with a verified token
\* of a role outside R is answered 403.
C8_RoleGate ==
  AtAuthorizedRoute
    => /\ gate.handled
            => (/\ VerifiesAsAccess(PresentedAccess(gate.req), gate.at)
                /\ PresentedAccess(gate.req).role \in Allowed)
       /\ PresentedAccess(gate.req) = NoToken
            => (~gate.handled /\ gate.status = 401)
       /\ (/\ VerifiesAsAccess(PresentedAccess(gate.req), gate.at)
           /\ PresentedAccess(gate.req).role \in Roles \ Allowed)
            => (~gate.handled /\ gate.status = 403)

\* A verified MEMBER token was answered 403 at a route for INSTRUCTOR and
\* ADMIN.
C8_Witness ==
  /\ AtAuthorizedRoute
  /\ Allowed = {"INSTRUCTOR", "ADMIN"}
  /\ VerifiesAsAccess(PresentedAccess(gate.req), gate.at)
  /\ PresentedAccess(gate.req).role = "MEMBER"
  /\ gate.status = 403

\* A location supplies a tenant id.
Supplied(v) == v # Undefined /\ v # Empty

\* The tenant id a request supplies: path, else query, else body, else none.
RequestTenant(req) ==
  IF Supplied(req.params.gymId) THEN req.params.gymId
  ELSE IF Supplied(req.query.gymId) THEN req.query.gymId
  ELSE IF Supplied(req.body.gymId) THEN req.body.gymId
  ELSE Undefined

\* C9: validateGymAccess answers 401 when the identity has no tenant;
\* otherwise it passes when the request supplies no tenant or the first
\* supplied one (path, query, body) is the identity's, and answers 403 when
\* that one differs, whatever the role.
C9_TenantGuard ==
  (gate # NoGate /\ gate.route.chain = <<ValidateGymAccess>>)
    => IF ~Supplied(gate.req.gymId)
       THEN ~gate.handled /\ gate.status = 401
       ELSE IF RequestTenant(gate.req) \in {Undefined, gate.req.gymId}
       THEN gate.handled
       ELSE ~gate.handled /\ gate.status = 403

\* An ADMIN whose request names no tenant in the path, another tenant in
\* the query and its own in the body was answered 403.
C9_Witness ==
  /\ gate # NoGate
  /\ gate.route.chain = <<ValidateGymAccess>>
  /\ gate.req.userRole = "ADMIN"
  /\ ~Supplied(gate.req.params.gymId)
  /\ Supplied(gate.req.query.gymId)
  /\ gate.req.query.gymId # gate.req.gymId
  /\ gate.req.body.gymId = gate.req.gymId
  /\ gate.status = 403

\* C10: a request that reaches the handler of a user-administration or
\* check-in route went through validateGymAccess.
C10_TenantGuardOnRoutes ==
  (/\ gate # NoGate
   /\ gate.route.router \in {"userRouter", "checkInRouter"}
   /\ gate.handled)
    => \E i \in DOMAIN gate.ran : gate.ran[i] = "validateGymAccess"


(***************************************************************************)
(* The token codec and the error handler.                                  *)
(***************************************************************************)
\* The latest step ran the verifier op on a token of the given class.
Ran(op, class) == res.op = op /\ res.req.class = class

\* The token under test is as it was generated.
Untouched == res.req.altered = "none"

\* C11: verifyAccessToken applied to the token generateAccessToken returned,
\* before its expiry, returns the subject, tenant and role it was generated
\* for; applied to that token with a claim or the signature altered it fails
\* with "Invalid access token"; applied to the untouched token at or after
\* its expiry it fails with "Access token expired", a different failure.
C11_CodecRoundTrip ==
  Ran("verifyAccessToken", "access") =>
    /\ (Untouched /\ now < res.req.iat + AccessExpiresIn) =>
         /\ res.message = "ok"
         /\ res.data # {}
         /\ \A d \in res.data :
              /\ d.userId = res.req.payload.userId
              /\ d.gymId = res.req.payload.gymId
              /\ d.role = res.req.payload.role
    /\ (~Untouched) =>
         (res.message = "Invalid access token" /\ res.data = {})
    /\ (Untouched /\ now >= res.req.iat + AccessExpiresIn) =>
         (res.message = "Access token expired" /\ res.data = {})
    /\ res.message \in {"ok", "Invalid access token", "Access token expired"}

\* An access token is verified untouched before its expiry and accepted.
C11_Witness ==
  /\ Ran("verifyAccessToken", "access")
  /\ Untouched
  /\ now < res.req.iat + AccessExpiresIn
  /\ res.req.payload.role = "INSTRUCTOR"
  /\ res.message = "ok"

\* C12: under every started configuration, verifyAccessToken accepts no
\* token generateRefreshToken produced and verifyRefreshToken accepts no
\* token generateAccessToken produced.
C12_ClassesApart ==
  /\ (Ran("verifyAccessToken", "refresh") /\ Untouched) => res.message # "ok"
  /\ (Ran("verifyRefreshToken", "access") /\ Untouched) => res.message # "ok"

\* C18: the error handler answers an AppError with that error's status and
\* message, and every other error with 500, "Internal server error" and no
\* further field.
C18_OthersAs500 ==
  (res.op = "errorHandler") =>
    IF res.req.kind = "AppError"
    THEN /\ res.status = res.req.statusCode
         /\ res.message = res.req.message
         /\ res.detail = Undefined
    ELSE /\ res.status = 500
         /\ res.message = "Internal server error"
         /\ res.detail = Undefined

(***************************************************************************)
(* The client's session at the protected routes.                           *)
(***************************************************************************)
\* The latest step answered a request of the client to a protected route.
SessionAnswered ==
  res.op \in {"getProfile", "listUsers", "getUserById", "updateOwnProfile"}

\* The access token that request carried.
SessionToken == PresentedAccess(res.req.req)

\* C13: a request whose access token verifies at the time of the request
\* passes authenticate with the subject, tenant and role of the token, and
\* the permission checks after it (authorize, listUsers, getUserById) decide
\* by that role and tenant, whatever the credential store holds for the
\* subject (inactive, deleted, another role); a request whose token does
\* not verify is answered 401.
C13_IdentityFromToken ==
  SessionAnswered =>
    IF VerifiesAsAccess(SessionToken, now)
    THEN /\ res.req.ran # <<>>
         /\ res.req.ran[1] = "authenticate"
         /\ res.status # 401
         /\ res.req.userId = SessionToken.userId
         /\ res.req.gymId = SessionToken.gymId
         /\ res.req.userRole = SessionToken.role
         /\ (res.op = "listUsers") =>
              (res.status = 200 <=> SessionToken.role # "MEMBER")
         /\ (res.op = "getUserById" /\ res.req.req.params.id \in DOMAIN users) =>
              (res.status = 200 <=>
                 \/ res.req.req.params.id = SessionToken.userId
                 \/ /\ users[res.req.req.params.id].gymId = SessionToken.gymId
                    /\ SessionToken.role # "MEMBER")
    ELSE /\ res.status = 401
         /\ ~res.req.handled

\* The list of users is returned to a token with role ADMIN whose subject
\* is by now an inactive MEMBER in the store.
C13_Witness ==
  /\ res.op = "listUsers"
  /\ res.status = 200
  /\ VerifiesAsAccess(SessionToken, now)
  /\ SessionToken.role = "ADMIN"
  /\ SessionToken.userId \in DOMAIN users
  /\ users[SessionToken.userId].role = "MEMBER"
  /\ ~users[SessionToken.userId].isActive

\* The cookies hold an access token that has expired and a refresh token
\* that has not.
StaleAccessLiveRefresh(cookies) ==
  /\ cookies.accessToken # NoToken
  /\ cookies.refreshToken # NoToken
  /\ now >= cookies.accessToken.exp
  /\ now < cookies.refreshToken.exp

\* A request that carries nothing but token as its accessToken cookie.
WithCookie(token) ==
  [cookies |-> [accessToken |-> token], headers |-> [authorization |-> NoToken],
   userId |-> 0, gymId |-> Undefined, userRole |-> Undefined]

\* C14: while the access token of the session has expired and its refresh
\* token has not, a protected route answers the session 401, and a refresh
\* with the session's cookies, the subject being in the store and active,
\* answers 200 with an access token that authenticate accepts at once.
C14_StaleThenRefresh ==
  /\ (SessionAnswered /\ StaleAccessLiveRefresh(res.req.req.cookies)) =>
       /\ res.status = 401
       /\ res.message = "Token invalido ou expirado"
       /\ ~res.req.handled
  /\ (/\ res.op = "refresh"
      /\ StaleAccessLiveRefresh(res.req.cookies)
      /\ res.req.cookies.refreshToken.userId \in DOMAIN users
      /\ users[res.req.cookies.refreshToken.userId].isActive) =>
       /\ res.status = 200
       /\ res.accessToken # NoToken
       /\ authenticate(JWT_CONFIG, WithCookie(res.accessToken), now).error
            = NoError
       /\ jar.accessToken = res.accessToken

\* The session is refreshed with a stale access token and a live refresh
\* token.
C14_Witness ==
  /\ res.op = "refresh"
  /\ res.status = 200
  /\ StaleAccessLiveRefresh(res.req.cookies)
  /\ now < jar.accessToken.exp

\* C15: no object in the body of a response of register, login, getProfile,
\* listUsers, getUserById, updateOwnProfile, updateUser, deactivateUser or
\* reactivateUser has a passwordHash field.
C15_NoHashReturned ==
  \A view \in res.data : "passwordHash" \notin DOMAIN view

\* getUserById returns the view of a record that holds a password hash.
C15_Witness ==
  /\ res.op = "getUserById"
  /\ res.status = 200
  /\ \E view \in res.data :
       /\ view.id \in DOMAIN users
       /\ view.email = users[view.id].email
       /\ comparePassword("p1", users[view.id].passwordHash)

(***************************************************************************)
(* The frame of the operations on a credential record.                     *)
(***************************************************************************)
\* The step is the write of an updateUser on record id that an ADMIN of the
\* record's tenant invoked.
UpdateUserByAdmin(id) ==
  /\ pc[1] = "upd_write"
  /\ call[1].op = "updateUser"
  /\ call[1].userId = id
  /\ call[1].rq.role = "ADMIN"
  /\ call[1].rq.gymId = users[id].gymId

\* What a step may do to the credential records.
RoleTenantFrame ==
  /\ \A id \in DOMAIN users \cap DOMAIN users' :
       /\ users'[id].gymId = users[id].gymId
       /\ (users'[id].role # users[id].role) => UpdateUserByAdmin(id)
  /\ \A id \in DOMAIN users' \ DOMAIN users :
       /\ pc[1] = "reg_create"
       /\ users'[id].gymId = call[1].data.gymId
  /\ (res'.op = "updateOwnProfile") =>
       /\ DOMAIN users' = DOMAIN users
       /\ \A id \in DOMAIN users :
            /\ [users'[id] EXCEPT !.name = users[id].name] = users[id]
            /\ (users'[id] # users[id]) => id = res'.req.userId

\* C16: no step changes the tenant of a record; a step changes the role of
\* a record only if it is the write of an updateUser invoked by an ADMIN of
\* the record's tenant; a record is created by register with the tenant of
\* the registration; and a step of updateOwnProfile changes of the store
\* nothing but the name of the record of the token's subject.
C16_RoleTenantFrame == [][RoleTenantFrame]_vars

\* An ADMIN has changed the role of the record the session was opened for,
\* and that user has changed the name of the record.
C16_Witness ==
  /\ res.op = "updateOwnProfile"
  /\ res.status = 200
  /\ users[res.req.userId].name = "n2"
  /\ users[res.req.userId].role # res.req.userRole
  /\ res.req.req.body.role = "ADMIN"
  /\ users[res.req.userId].role = "MEMBER"

\* The step answered a deactivateUser or deleteUser that an ADMIN invoked on
\* their own id.
SelfTargetAnswered ==
  /\ res'.op \in {"deactivateUser", "deleteUser"}
  /\ res'.req.rq.role = "ADMIN"
  /\ res'.req.rq.userId = res'.req.userId

\* C17: deactivateUser and deleteUser invoked by an ADMIN on their own id
\* are answered 403 and leave the credential store as it was.
C17_SelfTarget403 ==
  [][SelfTargetAnswered => (res'.status = 403 /\ users' = users)]_vars

(***************************************************************************)
(* authenticate at the routes.                                             *)
(***************************************************************************)
\* The request at the gate went to a route whose first middleware is
\* authenticate.
AtAuthenticatedRoute ==
  /\ gate # NoGate
  /\ gate.route.chain # <<>>
  /\ gate.route.chain[1] = Authenticate

\* authenticate stopped the request at the gate with message.
Stopped401(message) ==
  /\ ~gate.handled
  /\ gate.ran = <<"authenticate">>
  /\ gate.status = 401
  /\ gate.message = message

\* C19: authenticate takes the token of the accessToken cookie if that
\* cookie is there and not empty, and that of the Authorization header
\* otherwise; with no token that is not empty in either place it answers
\* 401 with the no-token message; a token that does not verify, expired or
\* invalid, is answered 401 with one message; a token that verifies passes
\* and the request gets the token's subject, tenant and role.
C19_Authenticate ==
  AtAuthenticatedRoute =>
    IF PresentedAccess(gate.req) = NoToken
    THEN Stopped401("Token de autenticacao nao fornecido")
    ELSE IF ~VerifiesAsAccess(PresentedAccess(gate.req), gate.at)
    THEN Stopped401("Token invalido ou expirado")
    ELSE /\ gate.ran # <<"authenticate">> \/ gate.handled
         /\ gate.userId = PresentedAccess(gate.req).userId
         /\ gate.gymId = PresentedAccess(gate.req).gymId
         /\ gate.userRole = PresentedAccess(gate.req).role

\* A request with an expired cookie and a header that verifies is answered
\* 401, and one with an empty cookie and a header that verifies passes with
\* the identity of the header's token.
C19_Witness ==
  /\ AtAuthenticatedRoute
  /\ gate.req.headers.authorization # NoToken
  /\ VerifiesAsAccess(gate.req.headers.authorization.credentials, gate.at)
  /\ \/ /\ gate.req.cookies.accessToken \notin {NoToken, EmptyToken}
        /\ gate.req.cookies.accessToken.secret = JWT_CONFIG.accessSecret
        /\ gate.at >= gate.req.cookies.accessToken.exp
        /\ Stopped401("Token invalido ou expirado")
     \/ /\ gate.req.cookies.accessToken = EmptyToken
        /\ gate.userId = gate.req.headers.authorization.credentials.userId
        /\ gate.ran # <<"authenticate">> \/ gate.handled

\* The token of the cookie whenever the request has that cookie, empty or
\* not, else the header's unless absent or empty.
CookieWhenPresent(req) ==
  IF req.cookies.accessToken # NoToken THEN req.cookies.accessToken
  ELSE IF /\ req.headers.authorization # NoToken
          /\ req.headers.authorization.credentials # EmptyToken
  THEN req.headers.authorization.credentials
  ELSE NoToken

\* C19 as stated: the cookie is taken whenever the request has it, so that
\* any cookie that does not verify, with any header, is answered 401.
C19_AsStated ==
  AtAuthenticatedRoute =>
    IF CookieWhenPresent(gate.req) = NoToken
    THEN Stopped401("Token de autenticacao nao fornecido")
    ELSE IF \/ CookieWhenPresent(gate.req) = EmptyToken
            \/ ~VerifiesAsAccess(CookieWhenPresent(gate.req), gate.at)
    THEN Stopped401("Token invalido ou expirado")
    ELSE /\ gate.ran # <<"authenticate">> \/ gate.handled
         /\ gate.userId = CookieWhenPresent(gate.req).userId
         /\ gate.gymId = CookieWhenPresent(gate.req).gymId
         /\ gate.userRole = CookieWhenPresent(gate.req).role

\* The step answers op, asked by an ADMIN of the tenant of the record it
\* names, which is in the store; for a deactivation the ADMIN is not the
\* record's own user.
FlipAnswered(op) ==
  /\ res'.op = op
  /\ res'.req.rq.role = "ADMIN"
  /\ res'.req.userId \in DOMAIN users
  /\ users[res'.req.userId].gymId = res'.req.rq.gymId
  /\ op = "deactivateUser" => res'.req.userId # res'.req.rq.userId

\* The store after the step is the one before it with the active flag of
\* the record the step names set to flag: the record is kept and no other
\* field of it, and no other record, changes.
FlagSet(flag) ==
  /\ res'.status = 200
  /\ users' = [users EXCEPT ![res'.req.userId].isActive = flag]

Refused400 == res'.status = 400 /\ users' = users

SoftDeleteFlip ==
  /\ (FlipAnswered("deactivateUser") /\ users[res'.req.userId].isActive)
       => FlagSet(FALSE)
  /\ (FlipAnswered("deactivateUser") /\ ~users[res'.req.userId].isActive)
       => Refused400
  /\ (FlipAnswered("reactivateUser") /\ ~users[res'.req.userId].isActive)
       => /\ FlagSet(TRUE)
          /\ users = [users' EXCEPT ![res'.req.userId].isActive = FALSE]
  /\ (FlipAnswered("reactivateUser") /\ users[res'.req.userId].isActive)
       => Refused400

\* C20: deactivateUser asked by an ADMIN of the record's tenant, not the
\* record's own user, on an active record keeps the record and changes
\* nothing but its active flag, which becomes false; reactivateUser on an
\* inactive record changes nothing but the flag, which becomes true, so
\* that deactivating the restored record gives back the store before the
\* reactivation; deactivateUser on an inactive record and reactivateUser on
\* an active one are answered 400 and leave the store unchanged.
C20_SoftDeleteFlip == [][SoftDeleteFlip]_vars

\* An inactive record with the ADMIN role has been reactivated.
C20_Witness ==
  /\ res.op = "reactivateUser"
  /\ res.status = 200
  /\ res.req.userId \in DOMAIN users
  /\ users[res.req.userId].isActive
  /\ users[res.req.userId].role = "ADMIN"

\* The refresh token verifies as one at the instant of the state and its
\* subject has an active record.
LiveRefreshToken(token) ==
  /\ VerifiesAsRefresh(token)
  /\ token.userId \in DOMAIN users
  /\ users[token.userId].isActive

\* C21: whatever happened before, a refresh with a token that has not
\* expired and whose subject has an active record is answered 200 with a
\* new access token, be the token the one of the cookie or an older one the
\* client kept; a refresh changes neither the store nor the refresh cookie;
\* logout answers 200 whatever the request holds, clears the cookies and
\* changes nothing of the store.
C21_RefreshNeverRevoked ==
  /\ []((res.op = "refresh" /\ LiveRefreshToken(Presented(res.req)))
          => (res.status = 200 /\ res.accessToken # NoToken))
  /\ [][res'.op = "refresh"
          => (users' = users /\ jar'.refreshToken = jar.refreshToken)]_vars
  /\ [][res'.op = "logout"
          => /\ res'.status = 200
             /\ users' = users /\ nextId' = nextId /\ JWT_CONFIG' = JWT_CONFIG
             /\ jar'.accessToken = NoToken /\ jar'.refreshToken = NoToken]_vars

\* After a logout, and after the clock moved, a refresh with a token the
\* client kept from before was answered 200.
C21_Witness ==
  /\ res.op = "refresh"
  /\ res.status = 200
  /\ jar.refreshToken = NoToken
  /\ res.req.cookies.refreshToken = NoToken
  /\ res.req.body.refreshToken.exp < now + RefreshExpiresIn

\* Both secrets of the process are there and not empty.
BothSecretsSet ==
  /\ JWT_CONFIG.accessSecret \notin {Undefined, Empty}
  /\ JWT_CONFIG.refreshSecret \notin {Undefined, Empty}

\* C22: once the codec's module was evaluated the process has ended if a
\* secret is absent or empty and runs if both are set; a token is issued or
\* verified only in a process with both secrets set.
C22_FailFast ==
  /\ pc[1] = "crashed" => ~BothSecretsSet
  /\ pc[1] = "idle" => BothSecretsSet
  /\ (call[1].op = "codec"
        \/ res.op \in {"verifyAccessToken", "verifyRefreshToken"})
       => BothSecretsSet

\* The load failed with the access secret set and the refresh secret empty.
C22_Witness ==
  /\ pc[1] = "crashed"
  /\ JWT_CONFIG.accessSecret = "s1"
  /\ JWT_CONFIG.refreshSecret = Empty

\* The store without the records of the email and tenant a login names.
Without(us, data) == [i \in DOMAIN us \ Addressed(us, data) |-> us[i]]

\* What login answers for data in the store us.
LoginAnswer(us, data) ==
  Fail("login", data,
       loginError(findByEmailAndGymId(us, data.email, data.gymId),
                  data.password))

\* The step answers a login whose password matches no stored hash.
NoMatchLogin ==
  /\ res'.op = "login"
  /\ \A i \in DOMAIN users :
       ~comparePassword(res'.req.password, users[i].passwordHash)

\* The answer of the step has the status and the message login gives for
\* the same request in the store that lacks the record.
SameAsWithout ==
  /\ res'.status = LoginAnswer(Without(users, res'.req), res'.req).status
  /\ res'.message = LoginAnswer(Without(users, res'.req), res'.req).message
  /\ res'.status = 401

\* C23 as stated: a login whose password matches no stored hash is answered
\* the same with a record for its email and tenant in the store, active or
\* not, as without one.
C23_AsStated == [][NoMatchLogin => SameAsWithout]_vars

\* C23: a login whose password matches no stored hash is answered the same,
\* 401 with one message, with an active record for its email and tenant in
\* the store as without one.
C23_NoEnumerationActive ==
  [][(NoMatchLogin
        /\ \A i \in Addressed(users, res'.req) : users[i].isActive)
     => SameAsWithout]_vars

\* A login with a wrong password for an active record was answered as the
\* store without the record answers it.
C23_Witness ==
  /\ res.op = "login"
  /\ \E i \in Addressed(users, res.req) :
       /\ users[i].isActive
       /\ ~comparePassword(res.req.password, users[i].passwordHash)
  /\ res.message = LoginAnswer(Without(users, res.req), res.req).message

\* Both conflicts apply to the register the step answers: its pair has a
\* record and the national ID it carries is held.
BothConflicts ==
  /\ res'.op = "register"
  /\ PairHeld(users, res'.req.email, res'.req.gymId)
  /\ res'.req.cpf \notin {Undefined, Empty}
  /\ CpfHeld(users, res'.req.cpf)

RegisterGates ==
  /\ (BothConflicts /\ pc' = pc)
       => /\ res'.status = 409
          /\ res'.message = "E-mail ja cadastrado nesta academia"
  /\ (res'.op = "register" /\ res'.message = "CPF ja cadastrado")
       => \E p \in Procs : pc[p] = "reg_cpf" /\ pc'[p] = "idle"
  /\ (res'.op = "register" /\ res'.status # 201)
       => /\ users' = users
          /\ nextId' = nextId
          /\ NoTokenIssued

\* C24: a register call whose first gate meets both conflicts is answered
\* with the email conflict; the national-ID conflict is reported only by a
\* call that passed the email gate; and a register that is not answered 201
\* creates no record, changes none and issues no token.
C24_RegisterGates == [][RegisterGates]_vars

\* A register whose pair and national ID were both taken was answered with
\* the email conflict.
C24_Witness ==
  /\ res.op = "register"
  /\ res.status = 409
  /\ res.message = "E-mail ja cadastrado nesta academia"
  /\ PairHeld(users, res.req.email, res.req.gymId)
  /\ res.req.cpf \notin {Undefined, Empty}
  /\ CpfHeld(users, res.req.cpf)

\* The step answers an operation that the user of the active ADMIN record i
\* asked for under its own identity.
AskedByAdminItself(i) ==
  /\ users[i].isActive
  /\ users[i].role = "ADMIN"
  /\ res'.op \in {"updateUser", "deactivateUser", "reactivateUser", "deleteUser"}
  /\ res'.req.rq = [userId |-> i, role |-> "ADMIN", gymId |-> users[i].gymId]

\* C25: no operation an ADMIN asks for under its own identity leaves that
\* ADMIN's own record inactive.
C25_NoSelfDeactivation ==
  [][\A i \in DOMAIN users :
       (AskedByAdminItself(i) /\ i \in DOMAIN users') => users'[i].isActive]_vars

\* The calendar day of an instant.
DayOf(t) == t \div DayLength

\* C27: no two rows of the check_ins table are of the same user, the same
\* gym and the same calendar day.
C27_OnePerDay ==
  \A i, j \in DOMAIN checkIns :
    (/\ i # j
     /\ checkIns[i].userId = checkIns[j].userId
     /\ checkIns[i].gymId = checkIns[j].gymId)
    => DayOf(checkIns[i].checkedInAt) # DayOf(checkIns[j].checkedInAt)

\* The operations of UserService and CheckInService that name a user, a
\* check-in, and the two that list.
UserTargetOps ==
  {"updateUser", "deactivateUser", "reactivateUser", "deleteUser",
   "getUserHistory"}
TenantOps ==
  UserTargetOps \cup {"getUserById", "validate", "listUsers", "listCheckIns",
                      "createCheckIn"}

\* The tenant of the requester a response answers.
RequesterTenant(r) ==
  IF r.op \in {"listUsers", "getUserById"} THEN r.req.gymId
  ELSE r.req.rq.gymId

\* The response answers a service call: one of a request that passed its
\* middleware, for the two operations reached through a session.
ServiceAnswer(r) ==
  /\ r.op \in TenantOps
  /\ r.op \in {"listUsers", "getUserById"} => r.req.handled

\* The target of the answered call is a stored record of another tenant.
ForeignTarget(r) ==
  \/ /\ r.op \in UserTargetOps
     /\ r.req.userId \in DOMAIN users
     /\ users[r.req.userId].gymId # RequesterTenant(r)
  \/ /\ r.op = "getUserById"
     /\ r.req.req.params.id \in DOMAIN users
     /\ users[r.req.req.params.id].gymId # RequesterTenant(r)
  \/ /\ r.op = "validate"
     /\ findCheckInById(checkIns, r.req.userId) # Null
     /\ findCheckInById(checkIns, r.req.userId).gymId # RequesterTenant(r)

\* The user records and the check-in rows a step changes, removes or adds.
TouchedUsers ==
  {users[i] : i \in {j \in DOMAIN users :
                       j \notin DOMAIN users' \/ users'[j] # users[j]}}
TouchedCheckIns ==
  LET old == {checkIns[i] : i \in DOMAIN checkIns}
      new == {checkIns'[i] : i \in DOMAIN checkIns'}
  IN  (old \ new) \cup (new \ old)

\* One step of tenant isolation.
TenantIsolated ==
  /\ (ServiceAnswer(res') /\ ForeignTarget(res'))
     => (res'.status = 403 /\ users' = users /\ checkIns' = checkIns)
  /\ \A p \in Procs :
       (pc[p] = "idle" /\ pc'[p] # "idle" /\ call'[p].op \in TenantOps)
       => ~ForeignTarget([op |-> call'[p].op,
                          req |-> Target(call'[p].userId, call'[p].rq)])
  /\ ServiceAnswer(res')
     => /\ \A row \in res'.data : row.gymId = RequesterTenant(res')
        /\ \A user \in TouchedUsers : user.gymId = RequesterTenant(res')
        /\ \A row \in TouchedCheckIns : row.gymId = RequesterTenant(res')
  /\ (TouchedUsers # {} \/ TouchedCheckIns # {}) => res'.op \in TenantOps

Flipped(op) ==
  IF res'.op = op /\ res'.status = 200 THEN {users[res'.req.userId]} ELSE {}

\* A stored record has the pair.
PairTaken(us, data) ==
  \E i \in DOMAIN us : us[i].email = data.email /\ us[i].gymId = data.gymId

\* What hard delete frees and soft delete keeps.
FreedAndKept ==
  /\ \A user \in Flipped("deleteUser") :
       /\ user.id \notin DOMAIN users'
       /\ ~PairTaken(users', user)
  /\ \A user \in Flipped("deactivateUser") :
       /\ users' = [users EXCEPT ![user.id].isActive = FALSE]
       /\ PairTaken(users', user)
  /\ \A user \in Flipped("reactivateUser") :
       users' = [users EXCEPT ![user.id].isActive = TRUE]

\* register is answered by its pair alone: Conflict while a record, active
\* or not, has it, and 201 once none has.
RegisterByPair ==
  /\ (res'.op = "register" /\ PairTaken(users, res'.req))
     => (res'.status = 409 /\ users' = users)
  /\ (res'.op = "register" /\ ~PairTaken(users, res'.req))
     => (res'.status = 201 /\ PairTaken(users', res'.req))
  /\ \A p \in Procs :
       (pc[p] = "idle" /\ pc'[p] = "reg_create")
       => ~PairTaken(users, call'[p].data)

\* login with the pair of no record is the generic 401, with the pair of an
\* active record and its password 200.
LoginByRecord ==
  res'.op = "login"
  => LET user == findByEmailAndGymId(users, res'.req.email, res'.req.gymId)
     IN  /\ user = Null
            => (res'.status = 401 /\ res'.message = "Credenciais invalidas")
         /\ (/\ user # Null
             /\ user.isActive
             /\ comparePassword(res'.req.password, user.passwordHash))
            => (res'.status = 200 /\ res'.user = user.id)

\* refreshAccessToken with a refresh token that verifies is answered by the
\* subject's record: 404 if none, 403 if inactive, 200 if active.
RefreshByRecord ==
  (res'.op = "refresh" /\ VerifiesAsRefresh(Presented(res'.req)))
  => LET user == findById(users, Presented(res'.req).userId)
     IN  res'.status = IF user = Null THEN 404
                       ELSE IF ~user.isActive THEN 403 ELSE 200

HardAndSoftDelete ==
  FreedAndKept /\ RegisterByPair /\ LoginByRecord /\ RefreshByRecord

\* C28: deleteUser removes the record and frees its (email, tenant) pair, so
\* that register with the pair succeeds again, login with it is the generic
\* 401 and refreshAccessToken with the user's refresh token is 404;
\* deactivateUser keeps the record with the active flag cleared, so that
\* register with the pair is still 409 and refreshAccessToken is 403, until
\* reactivateUser sets the flag again, after which login and
\* refreshAccessToken succeed.
C28_HardAndSoftDelete == [][HardAndSoftDelete]_vars

\* The pair of a deleted user was registered again, for a new record.
C28_Witness ==
  /\ res.op = "register"
  /\ res.status = 201
  /\ res.user = 2
  /\ DOMAIN users = {2}

\* A register that names no national ID, whose pair no record has, is
\* answered 201.
NoNationalIdRegisters ==
  (/\ res'.op = "register"
   /\ ~Truthy(res'.req.cpf)
   /\ ~PairTaken(users, res'.req))
  => res'.status = 201

\* C29: the national-ID gate of register applies only when a national ID is
\* provided: every registration whose national ID is omitted or is the empty
\* string, and whose (email, tenant) pair is free, succeeds; none is answered
\* Conflict.
C29_GateOnlyWhenProvided == [][NoNationalIdRegisters]_vars

\* The role register is asked to persist.
RequestedRole(data) == IF data.role = Undefined THEN "MEMBER" ELSE data.role

\* A register answered 201 persisted the requested role and returned tokens
\* of the new record; the route has no middleware before the handler.
RegisteredAsRequested ==
  (res'.op = "register" /\ res'.status = 201)
  => /\ \A r \in Routes : r.handler = "register" => r.chain = <<>>
     /\ res'.user \in DOMAIN users' \ DOMAIN users
     /\ users'[res'.user].role = RequestedRole(res'.req)
     /\ users'[res'.user].gymId = res'.req.gymId
     /\ res'.accessToken.userId = res'.user
     /\ res'.accessToken.gymId = users'[res'.user].gymId
     /\ res'.accessToken.role = users'[res'.user].role
     /\ res'.refreshToken.userId = res'.user
     /\ res'.refreshToken.gymId = Undefined
     /\ res'.refreshToken.role = Undefined

\* C30: register persists MEMBER when the request supplies no role and
\* otherwise the requested role, ADMIN and INSTRUCTOR included, whoever calls
\* the public endpoint; the access token returned carries the subject, the
\* tenant and the role of the persisted record and the refresh token the
\* subject only.
C30_RoleAsRequested == [][RegisteredAsRequested]_vars

\* A caller holding the cookies of a since deleted user registered a record
\* with the ADMIN role.
C30_Witness ==
  /\ res.op = "register"
  /\ res.status = 201
  /\ res.req.role = "ADMIN"
  /\ res.user = 2
  /\ users[2].role = "ADMIN"
  /\ res.accessToken.role = "ADMIN"

====
